---- MODULE Spec2Model ----
(***************************************************************************)
(* A model of four parts of the query engine:                              *)
(*   - InnerJoinSingleNode (operators/inner_join_node_single.py): the      *)
(*     single-key hash inner join, build side then probe side;             *)
(*   - AsyncReaderNode (operators/async_read_node.py): the asynchronous    *)
(*     blob scan with its background executor and reply queue;             *)
(*   - the binder (components/binder/binder.py): inner_binder with the     *)
(*     identifier lookup, the schema merge and the expression hash;        *)
(*   - the predicate rewriter (planner/cost_based_optimizer/strategies/    *)
(*     predicate_rewriter.py).                                             *)
(* Row positions are 1-based here (0-based in the source).                 *)
(***************************************************************************)
EXTENDS Integers, Sequences, FiniteSets, TLC

(***************************************************************************)
(* The state: one InnerJoinSingleNode, and one AsyncReaderNode.execute with *)
(* its background executor.                                                *)
(***************************************************************************)
VARIABLES
    stream,          \* "left" | "right"
    left_buffer,     \* the left morsels received so far
    left_relation,   \* [set, rows]: unset until the build concatenates the buffer
    left_hash,       \* [set, table]: None until preprocess_left returns
    left_columns,    \* _left_columns
    right_columns,   \* _right_columns
    key_type,        \* the Arrow type of the key column of both inputs
    right_relation,  \* the right morsel of the execute call in progress
    yielded,         \* what the execute call in progress has yielded
    join_error       \* the exception the last execute call raised, or "none"

joinVars == <<stream, left_buffer, left_relation, left_hash, left_columns,
              right_columns, key_type, right_relation, yielded, join_error>>

VARIABLES
    num_blobs,     \* len(blob_names); the blobs are 1 .. num_blobs in listing order
    op_pc,         \* the operator thread: "start" | "polling" | "joining" | "done" | "failed"
    scan_error,    \* the exception that left execute, or "none"
    ex_pc,         \* fetch_data: "not_started" | "gathering" | "marker_put" | "finished" | "crashed"
    task_pc,       \* fetch_and_process per blob: "pending" | "reading" | "done" | "raised"
    semaphore,     \* the free slots of asyncio.Semaphore(CONCURRENT_READS)
    data_queue,    \* the reply queue
    scan_morsel,   \* the local `morsel`: FALSE while it is None
    arrow_schema,  \* [set, fields]: the schema captured from the first morsel
    emitted,       \* the morsels execute yielded, in order
    statistics,    \* the counters and the message log
    handled        \* the blobs dequeued so far with what handling each ran into

scanVars == <<num_blobs, op_pc, scan_error, ex_pc, task_pc, semaphore, data_queue,
              scan_morsel, arrow_schema, emitted, statistics, handled>>

VARIABLES
    context,   \* the BindingContext: [dicts, schemas, fresh], see BinderContexts
    bound,     \* the last inner_binder call: its node, the context before, its result
    binds      \* the number of inner_binder calls made on this context

bindVars == <<context, bound, binds>>

VARIABLES
    hashed     \* two trees given to hash_tree, with what it returned for them

hashVars == <<hashed>>

VARIABLES
    plan_node,  \* the logical plan node the rewriter visits
    visits      \* the visits made: their number, the node before the last, its outcome

rewriteVars == <<plan_node, visits>>

VARIABLES
    merging    \* the arguments given to merge_schemas, with what it returned

mergeVars == <<merging>>

vars == <<joinVars, scanVars, bindVars, hashVars, rewriteVars, mergeVars>>

\* What the actions of one part leave alone.
notJoinVars == <<scanVars, bindVars, hashVars, rewriteVars, mergeVars>>

notScanVars == <<joinVars, bindVars, hashVars, rewriteVars, mergeVars>>

notBindVars == <<joinVars, scanVars, hashVars, rewriteVars, mergeVars>>

notHashVars == <<joinVars, scanVars, bindVars, rewriteVars, mergeVars>>

notRewriteVars == <<joinVars, scanVars, bindVars, hashVars, mergeVars>>

notMergeVars == <<joinVars, scanVars, bindVars, hashVars, rewriteVars>>

(***************************************************************************)
(* Bounds of the model.                                                    *)
(***************************************************************************)
\* rows of one morsel
MaxRows == 2
\* rows buffered on the build side, over all left morsels
MaxLeftRows == 3
\* morsels buffered on the build side
MaxLeftMorsels == 2

(***************************************************************************)
(* Join: data.                                                             *)
(***************************************************************************)
\* Python's hash() maps the unbounded domain of byte strings into a fixed
\* range of integers (2^64 values); here the range is HashRange values and the
\* key domain is one larger, so, as in the source, two keys share a hash.
HashRange == 2

KeyValues == 0 .. HashRange

\* hash(value_bytes) / hash(val): the hash of a key, not the key.
Hash(v) == v % HashRange

\* One slot of an Arrow array: a validity bit and the data under it (a null
\* slot holds the zero the builder wrote).
NullCell == [valid |-> FALSE, value |-> 0]

Cells == {[valid |-> TRUE, value |-> v] : v \in KeyValues} \cup {NullCell}

\* A morsel, reduced to its join key column.
Morsels == UNION {[1 .. n -> Cells] : n \in 0 .. MaxRows}

KeyTypes == {"integer", "floating", "fixed_size_binary", "binary", "string", "boolean"}

is_integer(t) == t = "integer"

is_fixed_or_floating(t) == t \in {"fixed_size_binary", "floating"}

\* Mutant of is_binary_or_string: fixed-size binary counts as binary.
is_binary_or_string_IncludesFixed(t) == t \in {"binary", "string", "fixed_size_binary"}

is_binary_or_string(t) == t \in {"binary", "string"}

\* The name of the key column in the morsels of each side.
LeftKeyName == "l_key"

RightKeyName == "r_key"

(***************************************************************************)
(* HashTable (opteryx.compiled.structures): key -> list of row indices.    *)
(***************************************************************************)
HashTableNew == <<>>

\* Mutant of HashTableInsert: the row is put before the rows already there.
HashTableInsert_Prepends(ht, k, row) ==
    IF k \in DOMAIN ht THEN [ht EXCEPT ![k] = <<row>> \o @]
    ELSE [x \in DOMAIN ht \cup {k} |-> IF x = k THEN <<row>> ELSE ht[x]]

HashTableInsert(ht, k, row) ==
    IF k \in DOMAIN ht THEN [ht EXCEPT ![k] = Append(@, row)]
    ELSE [x \in DOMAIN ht \cup {k} |-> IF x = k THEN <<row>> ELSE ht[x]]

HashTableGet(ht, k) == IF k \in DOMAIN ht THEN ht[k] ELSE <<>>

(***************************************************************************)
(* Join: the null mask shared by build and probe.                          *)
(***************************************************************************)
\* null_array: bit i of the validity bitmap, or all ones without a bitmap.
NullArray(array) == [i \in 1 .. Len(array) |-> array[i].valid]

RECURSIVE Where(_, _)
\* numpy.where(null_array)[0]: the positions of the set bits, ascending.
Where(null_array, i) ==
    IF i > Len(null_array) THEN <<>>
    ELSE IF null_array[i] THEN <<i>> \o Where(null_array, i + 1)
    ELSE Where(null_array, i + 1)

ValueOffsetMap(null_array) == Where(null_array, 1)

IsValidCell(c) == c.valid

\* array.filter(compute.is_valid(array))
NonNullArray(array) == SelectSeq(array, IsValidCell)

(***************************************************************************)
(* Join: preprocess_left, the build of the hash table.                     *)
(***************************************************************************)
\* Mutant of RowIsLive: the null mask is not consulted.
RowIsLive_IgnoresMask(null_array, i) == TRUE

\* `if null_array[i]:` of the hashed branches: only a valid row is live.
RowIsLive(null_array, i) == null_array[i]

\* Mutant of IntegerRowOf: the position among the non-null values is recorded.
IntegerRowOf_Unmapped(value_offset_map, i) == i

\* The left row recorded for the i-th non-null integer: value_offset_map[i].
IntegerRowOf(value_offset_map, i) == value_offset_map[i]

RECURSIVE InsertIntegers(_, _, _, _)
\* for i, val in enumerate(non_null_array.to_numpy()): ht.insert(val, value_offset_map[i])
InsertIntegers(ht, non_null_array, value_offset_map, i) ==
    IF i > Len(non_null_array) THEN ht
    ELSE InsertIntegers(
             HashTableInsert(ht, non_null_array[i].value, IntegerRowOf(value_offset_map, i)),
             non_null_array, value_offset_map, i + 1)

RECURSIVE InsertHashed(_, _, _, _)
\* for i in range(num_rows): if null_array[i]: ht.insert(hash(value), i)
InsertHashed(ht, array, null_array, i) ==
    IF i > Len(array) THEN ht
    ELSE IF RowIsLive(null_array, i)
         THEN InsertHashed(HashTableInsert(ht, Hash(array[i].value), i), array, null_array, i + 1)
         ELSE InsertHashed(ht, array, null_array, i + 1)

\* preprocess_left(relation, join_columns) for a key column of type t: the
\* hash table, or the TypeError of the last branch.
preprocess_left(array, t) ==
    LET null_array == NullArray(array)
        value_offset_map == ValueOffsetMap(null_array)
        non_null_array == NonNullArray(array)
    IN  IF is_integer(t)
        THEN [raised |-> FALSE,
              ht |-> InsertIntegers(HashTableNew, non_null_array, value_offset_map, 1)]
        ELSE IF is_fixed_or_floating(t) \/ is_binary_or_string(t)
        THEN [raised |-> FALSE, ht |-> InsertHashed(HashTableNew, array, null_array, 1)]
        ELSE [raised |-> TRUE, ht |-> HashTableNew]

(***************************************************************************)
(* Join: inner_join_with_preprocessed_left_side, the probe.                *)
(***************************************************************************)
\* [x] * n
Repeat(x, n) == [j \in 1 .. n |-> x]

NoMatches == [left_indexes |-> <<>>, right_indexes |-> <<>>, probed |-> <<>>]

\* rows = hash_table.get(k); if rows: extend both index lists.  probed records
\* the right rows that were looked up.
ProbeOne(acc, hash_table, k, right_row) ==
    LET rows == HashTableGet(hash_table, k)
    IN  [left_indexes |-> acc.left_indexes \o rows,
         right_indexes |-> acc.right_indexes \o Repeat(right_row, Len(rows)),
         probed |-> Append(acc.probed, right_row)]

RECURSIVE ProbeIntegers(_, _, _, _, _)
ProbeIntegers(acc, hash_table, non_null_array, value_offset_map, i) ==
    IF i > Len(non_null_array) THEN acc
    ELSE ProbeIntegers(
             ProbeOne(acc, hash_table, non_null_array[i].value, value_offset_map[i]),
             hash_table, non_null_array, value_offset_map, i + 1)

RECURSIVE ProbeHashed(_, _, _, _, _)
ProbeHashed(acc, hash_table, array, null_array, i) ==
    IF i > Len(array) THEN acc
    ELSE IF RowIsLive(null_array, i)
         THEN ProbeHashed(ProbeOne(acc, hash_table, Hash(array[i].value), i),
                          hash_table, array, null_array, i + 1)
         ELSE ProbeHashed(acc, hash_table, array, null_array, i + 1)

\* The three type branches: integer, elif fixed-size binary or floating, and
\* then, tested on its own with `if`, binary or string.
inner_join_with_preprocessed_left_side(array, t, hash_table) ==
    LET null_array == NullArray(array)
        value_offset_map == ValueOffsetMap(null_array)
        non_null_array == NonNullArray(array)
        first == IF is_integer(t)
                 THEN ProbeIntegers(NoMatches, hash_table, non_null_array, value_offset_map, 1)
                 ELSE IF is_fixed_or_floating(t)
                 THEN ProbeHashed(NoMatches, hash_table, array, null_array, 1)
                 ELSE NoMatches
    IN  IF is_binary_or_string(t)
        THEN ProbeHashed(first, hash_table, array, null_array, 1)
        ELSE first

(***************************************************************************)
(* Join: the state of one InnerJoinSingleNode.                             *)
(***************************************************************************)
Unset == [set |-> FALSE, rows |-> <<>>]

None == [set |-> FALSE, table |-> HashTableNew]

YieldNone == [morsel |-> FALSE, left_indexes |-> <<>>, right_indexes |-> <<>>, probed |-> <<>>]

YieldMorsel(m) ==
    [morsel |-> TRUE, left_indexes |-> m.left_indexes,
     right_indexes |-> m.right_indexes, probed |-> m.probed]

RECURSIVE ConcatTables(_)
\* pyarrow.concat_tables(tables, promote_options="none"), on the key column
ConcatTables(tables) ==
    IF tables = <<>> THEN <<>> ELSE Head(tables) \o ConcatTables(Tail(tables))

BufferedRows(tables) == Len(ConcatTables(tables))

\* __init__: the planner names one key column per side, in either order
\* (see the swap in execute).
JoinInit ==
    /\ stream = "left"
    /\ left_buffer = <<>>
    /\ left_relation = Unset
    /\ left_hash = None
    /\ \E swapped \in BOOLEAN :
           /\ left_columns = IF swapped THEN <<RightKeyName>> ELSE <<LeftKeyName>>
           /\ right_columns = IF swapped THEN <<LeftKeyName>> ELSE <<RightKeyName>>
    /\ key_type \in KeyTypes
    /\ right_relation = <<>>
    /\ yielded = YieldNone
    /\ join_error = "none"

\* Mutant of BufferAppend: the morsel is put in front of the buffer.
BufferAppend_Prepends(buffer, morsel) == <<morsel>> \o buffer

\* self.left_buffer.append(morsel)
BufferAppend(buffer, morsel) == Append(buffer, morsel)

\* execute(morsel), stream == "left", morsel is not EOS
ExecuteLeftMorsel(morsel) ==
    /\ UNCHANGED notJoinVars
    /\ ~yielded.morsel
    /\ stream = "left"
    /\ Len(left_buffer) < MaxLeftMorsels
    /\ BufferedRows(left_buffer) + Len(morsel) <= MaxLeftRows
    /\ left_buffer' = BufferAppend(left_buffer, morsel)
    /\ yielded' = YieldNone
    /\ join_error' = "none"
    /\ UNCHANGED <<stream, left_relation, left_hash, left_columns, right_columns,
                   key_type, right_relation>>

\* `self._left_columns[0] not in self.left_relation.column_names`
NeedsSwap == left_columns[1] # LeftKeyName

\* execute(EOS), stream == "left": the assignments in the order of the source;
\* an exception leaves the ones made before it.
ExecuteLeftEOS ==
    /\ UNCHANGED notJoinVars
    /\ ~yielded.morsel
    /\ stream = "left"
    /\ stream' = "right"
    /\ yielded' = YieldNone
    /\ UNCHANGED <<key_type, right_relation>>
    /\ IF left_buffer = <<>>
       THEN \* concat_tables([]) raises
            /\ join_error' = "ArrowInvalid"
            /\ UNCHANGED <<left_buffer, left_relation, left_hash, left_columns, right_columns>>
       ELSE LET relation == ConcatTables(left_buffer)
                built == preprocess_left(relation, key_type)
            IN  /\ left_relation' = [set |-> TRUE, rows |-> relation]
                /\ left_buffer' = <<>>
                /\ left_columns' = IF NeedsSwap THEN right_columns ELSE left_columns
                /\ right_columns' = IF NeedsSwap THEN left_columns ELSE right_columns
                /\ IF built.raised
                   THEN /\ join_error' = "TypeError"
                        /\ UNCHANGED left_hash
                   ELSE /\ join_error' = "none"
                        /\ left_hash' = [set |-> TRUE, table |-> built.ht]

\* execute(EOS), stream == "right"
ExecuteRightEOS ==
    /\ UNCHANGED notJoinVars
    /\ ~yielded.morsel
    /\ stream = "right"
    /\ yielded' = YieldNone
    /\ join_error' = "none"
    /\ UNCHANGED <<stream, left_buffer, left_relation, left_hash, left_columns,
                   right_columns, key_type, right_relation>>

\* The probe looks a key up: the type has a branch and a row is live.
ProbeLooksUp(morsel) ==
    /\ is_integer(key_type) \/ is_fixed_or_floating(key_type) \/ is_binary_or_string(key_type)
    /\ \E i \in 1 .. Len(morsel) : morsel[i].valid

\* execute(morsel), stream == "right": do the join
ExecuteRightMorsel(morsel) ==
    /\ UNCHANGED notJoinVars
    /\ ~yielded.morsel
    /\ stream = "right"
    /\ right_relation' = morsel
    /\ UNCHANGED <<stream, left_buffer, left_relation, left_hash, left_columns,
                   right_columns, key_type>>
    /\ IF ~left_relation.set
       THEN \* self.left_relation was never assigned
            /\ join_error' = "AttributeError"
            /\ yielded' = YieldNone
       ELSE IF ~left_hash.set /\ ProbeLooksUp(morsel)
       THEN \* hash_table is None
            /\ join_error' = "AttributeError"
            /\ yielded' = YieldNone
       ELSE /\ join_error' = "none"
            /\ yielded' = YieldMorsel(
                   inner_join_with_preprocessed_left_side(morsel, key_type, left_hash.table))

\* The caller takes the joined morsel and the generator of that call ends
\* (line 222 is its last statement); the next call is made after that.
ExecuteReturns ==
    /\ UNCHANGED notJoinVars
    /\ yielded.morsel
    /\ yielded' = YieldNone
    /\ right_relation' = <<>>
    /\ UNCHANGED <<stream, left_buffer, left_relation, left_hash, left_columns,
                   right_columns, key_type, join_error>>

JoinNext ==
    \/ \E morsel \in Morsels : ExecuteLeftMorsel(morsel)
    \/ ExecuteLeftEOS
    \/ \E morsel \in Morsels : ExecuteRightMorsel(morsel)
    \/ ExecuteRightEOS
    \/ ExecuteReturns

(***************************************************************************)
(* Scan: bounds and data.                                                  *)
(***************************************************************************)
\* blobs a listing can hold
MaxBlobs == 3
\* polls that time out, counted in stalls_reading_from_read_buffer
MaxStalls == 1

\* inner_binder calls on one context
MaxBinds == 2
\* characters of a LIKE pattern
MaxPattern == 3
\* visits of the rewriter to one plan node
MaxVisits == 2
\* dicts given to one call of merge_schemas
MaxMerged == 2
\* characters of the text in a row a predicate is evaluated on
MaxText == 2

CONCURRENT_READS == 2

\* reply_queue.put(None): the termination marker; a blob is a number >= 1
TerminationMarker == 0

\* The relation schema (orso_schema) after the projection: two columns.
OrsoSchema ==
    << [name |-> "user_name", identity |-> "c1", type |-> "VARCHAR"],
       [name |-> "followers", identity |-> "c2", type |-> "INTEGER"] >>

ArrowTypeOf(orso_type) == IF orso_type = "VARCHAR" THEN "string" ELSE "int64"

\* DataFrame(rows=[], schema=orso_schema).arrow() with the columns renamed to
\* the identities: the schema of the morsel of an empty listing.
EmptyListingSchema ==
    [i \in 1 .. Len(OrsoSchema) |->
        [name |-> OrsoSchema[i].identity, type |-> ArrowTypeOf(OrsoSchema[i].type)]]

\* convert_orso_schema_to_arrow_schema(orso_schema, use_identities=True)
ConvertedArrowSchema ==
    [i \in 1 .. Len(OrsoSchema) |->
        [name |-> OrsoSchema[i].identity, type |-> ArrowTypeOf(OrsoSchema[i].type)]]

\* The Arrow types a decoder may give the columns of one blob.
DecodedTypes == {<<"string", "int64">>, <<"string", "double">>}

\* normalize_morsel(orso_schema, morsel): the columns of the relation schema,
\* in its order, named by identity; each keeps the type the blob gave it.
NormalizedSchema(types) ==
    [i \in 1 .. Len(OrsoSchema) |-> [name |-> OrsoSchema[i].identity, type |-> types[i]]]

\* What handling one dequeued blob can run into, by the step that raises.
Outcomes ==
    {"ok", "pool_error", "decode_no_match", "decode_error", "struct_error",
     "normalise_error", "cast_error"}

\* The errors the inner handler (lines 169-176) turns into a DataError.
InnerErrors == {"pool_error", "decode_no_match", "decode_error"}

\* The steps that run after `num_rows, _, morsel = decoded`.
AfterDecode == {"struct_error", "normalise_error", "cast_error"}

\* The decoder's tuple (num_rows, _, morsel) for blob b: the row count it
\* reports, and the rows of the morsel it returns once the selection has been
\* applied.  Blob 1 loses its only row, blob 2 none, blob 3 one of three.
DecodedNumRows(b) == b

DecodedMorselRows(b) == IF b % 2 = 0 THEN b ELSE b - 1

(***************************************************************************)
(* Scan: the state of one AsyncReaderNode.execute and its executor.        *)
(***************************************************************************)
Blobs == 1 .. num_blobs

NoSchema == [set |-> FALSE, fields |-> <<>>]

EmptyMorsel(schema) == [kind |-> "empty", blob |-> 0, schema |-> schema, num_rows |-> 0]

\* struct_to_jsonb, normalize_morsel and cast keep the rows of the morsel
BlobMorsel(b, schema) ==
    [kind |-> "blob", blob |-> b, schema |-> schema, num_rows |-> DecodedMorselRows(b)]

ScanInit ==
    /\ num_blobs \in 0 .. MaxBlobs
    /\ op_pc = "start"
    /\ scan_error = "none"
    /\ ex_pc = "not_started"
    /\ task_pc = [b \in 1 .. num_blobs |-> "pending"]
    /\ semaphore = CONCURRENT_READS
    /\ data_queue = <<>>
    /\ scan_morsel = FALSE
    /\ arrow_schema = NoSchema
    /\ emitted = <<>>
    /\ statistics = [blobs_read |-> 0, failed_reads |-> 0, messages |-> <<>>,
                     stalls_reading_from_read_buffer |-> 0, empty_datasets |-> 0,
                     rows_seen |-> 0, rows_read |-> 0]
    /\ handled = <<>>

(***************************************************************************)
(* Scan: fetch_data, the background executor.                              *)
(***************************************************************************)
\* Mutant of SlotFree: a task enters without waiting for a slot.
SlotFree_NoWait(s) == TRUE

\* `async with semaphore`: a task enters when a slot is free.
SlotFree(s) == s > 0

\* A task acquires its slot; tasks are started, and woken, in listing order.
TaskAcquire(b) ==
    /\ UNCHANGED notScanVars
    /\ ex_pc = "gathering"
    /\ task_pc[b] = "pending"
    /\ \A a \in 1 .. b - 1 : task_pc[a] # "pending"
    /\ SlotFree(semaphore)
    /\ semaphore' = semaphore - 1
    /\ task_pc' = [task_pc EXCEPT ![b] = "reading"]
    /\ UNCHANGED <<num_blobs, op_pc, scan_error, ex_pc, data_queue, scan_morsel,
                   arrow_schema, emitted, statistics, handled>>

\* Mutant of reply_queue_put: the item goes to the front of the queue.
reply_queue_put_AtFront(q, item) == <<item>> \o q

\* reply_queue.put(item) on queue.Queue, a FIFO queue
reply_queue_put(q, item) == Append(q, item)

\* The read returns: the result is put on the queue and the slot released.
TaskReadDone(b) ==
    /\ UNCHANGED notScanVars
    /\ ex_pc = "gathering"
    /\ task_pc[b] = "reading"
    /\ data_queue' = reply_queue_put(data_queue, b)
    /\ semaphore' = semaphore + 1
    /\ task_pc' = [task_pc EXCEPT ![b] = "done"]
    /\ UNCHANGED <<num_blobs, op_pc, scan_error, ex_pc, scan_morsel, arrow_schema,
                   emitted, statistics, handled>>

\* The read raises: the slot is released, gather hands the exception to
\* fetch_data, which ends with it, and with it the event loop and the thread.
TaskReadRaises(b) ==
    /\ UNCHANGED notScanVars
    /\ ex_pc = "gathering"
    /\ task_pc[b] = "reading"
    /\ semaphore' = semaphore + 1
    /\ task_pc' = [task_pc EXCEPT ![b] = "raised"]
    /\ ex_pc' = "crashed"
    /\ UNCHANGED <<num_blobs, op_pc, scan_error, data_queue, scan_morsel, arrow_schema,
                   emitted, statistics, handled>>

\* gather returned: reply_queue.put(None)
ExecutorPutMarker ==
    /\ UNCHANGED notScanVars
    /\ ex_pc = "gathering"
    /\ \A b \in Blobs : task_pc[b] = "done"
    /\ data_queue' = reply_queue_put(data_queue, TerminationMarker)
    /\ ex_pc' = "marker_put"
    /\ UNCHANGED <<num_blobs, op_pc, scan_error, task_pc, semaphore, scan_morsel,
                   arrow_schema, emitted, statistics, handled>>

\* session.close() and the end of the thread
ExecutorClose ==
    /\ UNCHANGED notScanVars
    /\ ex_pc = "marker_put"
    /\ ex_pc' = "finished"
    /\ UNCHANGED <<num_blobs, op_pc, scan_error, task_pc, semaphore, data_queue,
                   scan_morsel, arrow_schema, emitted, statistics, handled>>

(***************************************************************************)
(* Scan: execute, the operator thread.                                     *)
(***************************************************************************)
\* The listing; an empty one yields an empty morsel (lines 110-118, which do
\* not return); then the reader thread is started.
ScanStart ==
    /\ UNCHANGED notScanVars
    /\ op_pc = "start"
    /\ emitted' = IF num_blobs = 0 THEN <<EmptyMorsel(EmptyListingSchema)>> ELSE <<>>
    /\ ex_pc' = "gathering"
    /\ op_pc' = "polling"
    /\ UNCHANGED <<num_blobs, scan_error, task_pc, semaphore, data_queue, scan_morsel,
                   arrow_schema, statistics, handled>>

\* data_queue.get(timeout=0.1) raises queue.Empty: a stall, and the next poll
PollEmpty ==
    /\ UNCHANGED notScanVars
    /\ op_pc = "polling"
    /\ data_queue = <<>>
    /\ statistics.stalls_reading_from_read_buffer < MaxStalls
    /\ statistics' = [statistics EXCEPT !.stalls_reading_from_read_buffer = @ + 1]
    /\ UNCHANGED <<num_blobs, op_pc, scan_error, ex_pc, task_pc, semaphore, data_queue,
                   scan_morsel, arrow_schema, emitted, handled>>

\* `if item is None: break`
PollMarker ==
    /\ UNCHANGED notScanVars
    /\ op_pc = "polling"
    /\ data_queue # <<>>
    /\ Head(data_queue) = TerminationMarker
    /\ data_queue' = Tail(data_queue)
    /\ op_pc' = "joining"
    /\ UNCHANGED <<num_blobs, scan_error, ex_pc, task_pc, semaphore, scan_morsel,
                   arrow_schema, emitted, statistics, handled>>

\* The exception that reaches the outer handler: the inner handler raises a
\* DataError for whatever the pool read or the decoder raised; the later steps
\* raise their own.
RaisedBy(outcome) ==
    IF outcome \in InnerErrors THEN "DataError"
    ELSE IF outcome \in AfterDecode THEN "ArrowInvalid"
    ELSE "none"

\* The classes derived from Exception among the ones above.
ExceptionClasses == {"DataError", "ArrowInvalid"}

\* Mutant of OuterHandlerCatches: the handler names DataError alone.
OuterHandlerCatches_DataErrorOnly(exc) == exc = "DataError"

\* `except Exception as err:` of the outer try (line 195)
OuterHandlerCatches(exc) == exc \in ExceptionClasses

\* Mutant of CastResult: the morsel is emitted as decoded.
CastResult_NotCast(morsel_schema, target) == morsel_schema

\* morsel.cast(arrow_schema): the morsel with the captured schema
CastResult(morsel_schema, target) == target

\* Mutant of RowsReadAfter: the count the decoder reported is added.
RowsReadAfter_CountsReported(rows_read, num_rows, morsel) == rows_read + num_rows

\* `self.statistics.rows_read += morsel.num_rows` (line 191)
RowsReadAfter(rows_read, num_rows, morsel) == rows_read + morsel.num_rows

\* Mutant of FailedReadsAfter: the failure is logged but not counted.
FailedReadsAfter_NotCounted(failed_reads) == failed_reads

\* `self.statistics.failed_reads += 1` (line 197)
FailedReadsAfter(failed_reads) == failed_reads + 1

\* One iteration of the loop on a dequeued (blob_name, reference).
ProcessBlob(outcome, types) ==
    /\ UNCHANGED notScanVars
    /\ op_pc = "polling"
    /\ data_queue # <<>>
    /\ Head(data_queue) # TerminationMarker
    /\ outcome = "cast_error" =>
           arrow_schema.set /\ NormalizedSchema(types) # arrow_schema.fields
    /\ LET b == Head(data_queue)
           normalized == NormalizedSchema(types)
           morsel == BlobMorsel(b, IF arrow_schema.set
                                   THEN CastResult(normalized, arrow_schema.fields)
                                   ELSE normalized)
           seen == IF outcome \in InnerErrors
                   THEN statistics.rows_seen
                   ELSE statistics.rows_seen + DecodedNumRows(b)
       IN  /\ data_queue' = Tail(data_queue)
           /\ handled' = Append(handled,
                  [blob |-> b, outcome |-> outcome,
                   types |-> IF outcome \in InnerErrors THEN <<>> ELSE types])
           /\ scan_morsel' = (scan_morsel \/ outcome \notin InnerErrors)
           /\ IF outcome = "ok"
              THEN /\ arrow_schema' =
                          IF arrow_schema.set THEN arrow_schema
                          ELSE [set |-> TRUE, fields |-> normalized]
                   /\ emitted' = Append(emitted, morsel)
                   /\ statistics' = [statistics EXCEPT
                          !.rows_seen = seen,
                          !.blobs_read = @ + 1,
                          !.rows_read = RowsReadAfter(@, DecodedNumRows(b), morsel)]
                   /\ UNCHANGED <<op_pc, scan_error>>
              ELSE IF OuterHandlerCatches(RaisedBy(outcome))
              THEN /\ statistics' = [statistics EXCEPT
                                        !.rows_seen = seen,
                                        !.messages = Append(@, b),
                                        !.failed_reads = FailedReadsAfter(@)]
                   /\ UNCHANGED <<op_pc, scan_error, arrow_schema, emitted>>
              ELSE /\ op_pc' = "failed"
                   /\ scan_error' = RaisedBy(outcome)
                   /\ statistics' = [statistics EXCEPT !.rows_seen = seen]
                   /\ UNCHANGED <<arrow_schema, emitted>>
    /\ UNCHANGED <<num_blobs, ex_pc, task_pc, semaphore>>

\* Mutant of ThreadHasEnded: the operator does not wait for the thread.
ThreadHasEnded_NotAwaited(pc) == TRUE

\* read_thread.join() returns: the target of the thread returned or raised
ThreadHasEnded(pc) == pc \in {"finished", "crashed"}

\* read_thread.join(), then the empty morsel when `morsel is None`
JoinThread ==
    /\ UNCHANGED notScanVars
    /\ op_pc = "joining"
    /\ ThreadHasEnded(ex_pc)
    /\ op_pc' = "done"
    /\ IF ~scan_morsel
       THEN /\ statistics' = [statistics EXCEPT !.empty_datasets = @ + 1]
            /\ emitted' = Append(emitted, EmptyMorsel(ConvertedArrowSchema))
       ELSE UNCHANGED <<statistics, emitted>>
    /\ UNCHANGED <<num_blobs, scan_error, ex_pc, task_pc, semaphore, data_queue,
                   scan_morsel, arrow_schema, handled>>

ScanNext ==
    \/ ScanStart
    \/ \E b \in Blobs : TaskAcquire(b)
    \/ \E b \in Blobs : TaskReadDone(b)
    \/ \E b \in Blobs : TaskReadRaises(b)
    \/ ExecutorPutMarker
    \/ ExecutorClose
    \/ PollEmpty
    \/ PollMarker
    \/ \E outcome \in Outcomes, types \in DecodedTypes : ProcessBlob(outcome, types)
    \/ JoinThread

(***************************************************************************)
(* Binder: columns, schemas and expression nodes.                          *)
(* A string attribute that is None is the empty string here (the binder    *)
(* tests those by truth value); an absent node, column or identity is a    *)
(* value of its own.  A schemas dict is the sequence of its entries in     *)
(* insertion order, each a relation schema [name, columns] kept under its  *)
(* own name.                                                               *)
(***************************************************************************)
\* The value of a set of one value: The({F(x) : x \in {e}}) is F(e) with e
\* evaluated once.
The(S) == CHOOSE x \in S : TRUE

\* A text that is hashed or used as an identity; `hex` is not empty when the
\* text is the hexadecimal form of that hash value.
Text(s) == [text |-> s, hex |-> {}]

NoIdentity == Text("")

\* orso.cityhash.CityHash64 as a collision-free hash whose values are linearly
\* independent under XOR: a hash value is a set of texts, the hash of a text
\* the set that holds it, 0 the empty set.
CityHash64(text) == {text}

\* `^` on hash values
Xor(h1, h2) == (h1 \ h2) \cup (h2 \ h1)

\* hex(_hash)[2:]
Hex(h) == IF h = {} THEN Text("0") ELSE [text |-> "", hex |-> h]

NoColumn == [kind |-> "None"]

NoNode == [node_type |-> "None"]

\* orso's column classes: FlatColumn, ConstantColumn, FunctionColumn and
\* opteryx.managers.expression.ExpressionColumn
Column(kind, name, aliases, identity) ==
    [kind |-> kind, name |-> name, aliases |-> aliases, identity |-> identity,
     origin |-> <<>>, value |-> ""]

\* Column.all_names
all_names(column) == <<column.name>> \o column.aliases

\* The identity orso gives a column created without one: a new random string.
RandomIdentity(fresh) == Text("random-" \o ToString(fresh))

\* opteryx.models.Node with the attributes the binder and the predicate
\* rewriter read; the members of an EXPRESSION_LIST or of the literal of an IN
\* list, which the source keeps in `value`, are in `members`.
Node(node_type, value) ==
    [node_type |-> node_type, value |-> value, alias |-> "", source |-> "",
     source_column |-> "", current_name |-> "", query_column |-> "",
     identity |-> NoIdentity, schema_column |-> NoColumn,
     do_not_create_column |-> FALSE, left |-> NoNode, right |-> NoNode,
     centre |-> NoNode, parameters |-> <<>>, members |-> <<>>,
     type |-> "None", sub_type |-> "None", source_connector |-> {}]

\* The symbols format_expression prints for the operators of the model.
OperatorSymbol(value) ==
    CASE value = "Plus" -> "+"
      [] value = "Minus" -> "-"
      [] value = "Gt" -> ">"
      [] value = "Eq" -> "="
      [] OTHER -> value

\* format_expression(node, True): the text of the expression with qualified
\* identifiers; aliases are not part of it.
RECURSIVE format_expression(_)
RECURSIVE FormatList(_, _)
FormatList(nodes, i) ==
    IF i > Len(nodes) THEN ""
    ELSE format_expression(nodes[i])
         \o (IF i < Len(nodes) THEN ", " ELSE "")
         \o FormatList(nodes, i + 1)

format_expression(node) ==
    CASE node.node_type = "LITERAL" -> node.value
      [] node.node_type \in {"FUNCTION", "AGGREGATOR"} ->
            node.value \o "(" \o FormatList(node.parameters, 1) \o ")"
      [] node.node_type \in {"BINARY_OPERATOR", "COMPARISON_OPERATOR"} ->
            format_expression(node.left) \o " " \o OperatorSymbol(node.value)
              \o " " \o format_expression(node.right)
      [] node.node_type = "EXPRESSION_LIST" ->
            "(" \o FormatList(node.members, 1) \o ")"
      [] node.node_type = "WILDCARD" -> "*"
      [] node.node_type = "SUBQUERY" -> "(subquery)"
      [] OTHER ->
            IF node.source # "" THEN node.source \o "." \o node.current_name
            ELSE node.current_name

\* hash_tree's inner(node): the XOR of the children's hashes, or for a zero
\* fold the hash of what names the node itself.
RECURSIVE inner(_)
RECURSIVE InnerOfParameters(_, _)
InnerOfParameters(parameters, i) ==
    IF i > Len(parameters) THEN {}
    ELSE Xor(inner(parameters[i]), InnerOfParameters(parameters, i + 1))

inner(node) ==
    LET h1 == IF node.left # NoNode THEN inner(node.left) ELSE {}
        h2 == IF node.right # NoNode THEN Xor(h1, inner(node.right)) ELSE h1
        h3 == IF node.centre # NoNode THEN Xor(h2, inner(node.centre)) ELSE h2
    IN  The({IF _hash = {} /\ node.identity # NoIdentity
             THEN CityHash64(node.identity)
             ELSE IF _hash = {} /\ node.schema_column # NoColumn
             THEN CityHash64(node.schema_column.identity)
             ELSE IF _hash = {} /\ node.node_type = "EXPRESSION_LIST"
             THEN \* str(node.value) of the tuple of members
                  CityHash64(Text("(" \o FormatList(node.members, 1) \o ",)"))
             ELSE IF _hash = {} /\ node.value # ""
             THEN CityHash64(Text(node.value))
             ELSE IF _hash = {} /\ node.node_type = "WILDCARD"
             THEN CityHash64(Text((IF node.source = "" THEN "None" ELSE node.source) \o "*"))
             ELSE _hash :
               _hash \in {Xor(h3, InnerOfParameters(node.parameters, 1))}})

\* Mutant of hash_tree: the hash of the formatted text is left out.
hash_tree_InnerOnly(node) == Hex(inner(node))

hash_tree(node) ==
    Hex(Xor(CityHash64(Text(format_expression(node))), inner(node)))

\* RelationSchema.find_column: the position of the first column with that
\* name, else of the first with that alias, else 0.
find_column(schema, column_name) ==
    LET named == {i \in 1 .. Len(schema.columns) : schema.columns[i].name = column_name}
        aliased == {i \in 1 .. Len(schema.columns) :
                       \E a \in 1 .. Len(schema.columns[i].aliases) :
                           schema.columns[i].aliases[a] = column_name}
        first(S) == CHOOSE i \in S : \A j \in S : i <= j
    IN  IF named # {} THEN first(named)
        ELSE IF aliased # {} THEN first(aliased)
        ELSE 0

\* The position of the entry kept under `key` in a schemas dict, else 0.
KeyAt(dict, key) ==
    IF \E i \in 1 .. Len(dict) : dict[i].name = key
    THEN CHOOSE i \in 1 .. Len(dict) : dict[i].name = key
    ELSE 0

\* RelationSchema.__add__: the columns of both, one per identity.
SchemaUnion(schema, other) ==
    [schema EXCEPT !.columns =
        @ \o SelectSeq(other.columns,
                 LAMBDA c : \A i \in 1 .. Len(schema.columns) :
                                schema.columns[i].identity # c.identity)]

\* An argument of merge_schemas: a dict with its entries, or another object.
Dict(entries) == [type |-> "dict", entries |-> entries]

\* isinstance(dic, dict)
IsDict(dic) == dic.type = "dict"

\* isinstance(value, RelationSchema): the values that have columns
IsRelationSchema(value) == "columns" \in DOMAIN value

\* What merge_schemas leaves: the dict it returns, or the error it raises.
MergeReturns(merged_dict) == [dict |-> merged_dict, error |-> "none"]

MergeRaises(error) == [dict |-> <<>>, error |-> error]

\* The inner loop of merge_schemas over the entries of one dict; an entry
\* under a new key is a deep copy, which as a value is the entry.  `+=` on a
\* value already merged that is not a schema raises TypeError.
RECURSIVE MergeDict(_, _, _)
MergeDict(merged_dict, dic, k) ==
    IF k > Len(dic) THEN MergeReturns(merged_dict)
    ELSE LET at == KeyAt(merged_dict, dic[k].name)
         IN  IF at = 0 THEN MergeDict(Append(merged_dict, dic[k]), dic, k + 1)
             ELSE IF ~IsRelationSchema(dic[k])
             THEN MergeRaises("InvalidInternalStateError")
             ELSE IF ~IsRelationSchema(merged_dict[at])
             THEN MergeRaises("TypeError")
             ELSE MergeDict([merged_dict EXCEPT ![at] = SchemaUnion(@, dic[k])],
                            dic, k + 1)

RECURSIVE MergeFrom(_, _, _)
MergeFrom(merged_dict, schemas, i) ==
    IF i > Len(schemas) THEN MergeReturns(merged_dict)
    ELSE IF ~IsDict(schemas[i]) THEN MergeRaises("InvalidInternalStateError")
    ELSE The({IF one.error # "none" THEN one ELSE MergeFrom(one.dict, schemas, i + 1) :
                one \in {MergeDict(merged_dict, schemas[i].entries, 1)}})

merge_schemas(schemas) == MergeFrom(<<>>, schemas, 1)

(***************************************************************************)
(* Binder: the BindingContext and the functions that bind.                 *)
(* The context is one object that every call changes in place.  Its        *)
(* `schemas` attribute points at a dict; merge_schemas makes a new dict,   *)
(* and a call keeps pointing at the dict it saw first (its local           *)
(* `schemas`).  So the context is [dicts, schemas, fresh]: the dicts made  *)
(* so far, the position of the one context.schemas points at, and the      *)
(* number of random identities handed out.  A bound node holds the column  *)
(* as it was when the node was bound.                                      *)
(***************************************************************************)
\* What a binding function returns: the node, the context, the exception it
\* raised or "none", and the paths below the node (child names from the node
\* down) at which the lookup by column name bound a node without visiting
\* its children.
Returned(node, ctx, skipped) ==
    [node |-> node, context |-> ctx, error |-> "none", skipped |-> skipped]

Raised(node, ctx, error) ==
    [node |-> node, context |-> ctx, error |-> error, skipped |-> {}]

Under(child, skipped) == {<<child>> \o path : path \in skipped}

\* name.startswith("$shared")
StartsWithShared(name) == Len(name) >= 7 /\ SubSeq(name, 1, 7) = "$shared"

\* current_name[0] == "@"
IsVariable(current_name) == SubSeq(current_name, 1, 1) = "@"

\* Mutant of IsCandidate: the shared schemas are not candidates.
IsCandidate_SourceOnly(name, source) == name = source

\* The schemas locate_identifier looks in for a node that has a source.
IsCandidate(name, source) == StartsWithShared(name) \/ name = source

\* locate_identifier_in_loaded_schemas over the candidates from the i-th on;
\* `found` is [schema, column], the positions of the match so far or 0.
RECURSIVE LocateFrom(_, _, _, _, _)
LocateFrom(value, dict, candidates, i, found) ==
    IF i > Len(candidates) THEN [error |-> "none", schema |-> found.schema,
                                 column |-> found.column]
    ELSE LET at == find_column(dict[candidates[i]], value)
         IN  IF at # 0
             THEN IF found.column # 0
                  THEN [error |-> "AmbiguousIdentifierError", schema |-> 0, column |-> 0]
                  ELSE LocateFrom(value, dict, candidates, i + 1,
                                  [schema |-> candidates[i], column |-> at])
             ELSE LocateFrom(value, dict, candidates, i + 1, found)

locate_identifier_in_loaded_schemas(value, dict, candidates) ==
    LocateFrom(value, dict, candidates, 1, [schema |-> 0, column |-> 0])

\* connection.variables.as_column(name): a constant column named as the
\* variable, holding its value.
as_column(name, fresh) ==
    [Column("constant", name, <<>>, RandomIdentity(fresh)) EXCEPT !.value = "value-of-" \o name]

\* Mutant of AppendDerived: the column is not kept.
AppendDerived_NotAppended(ctx, at, column) == ctx

\* context.schemas["$derived"].columns.append(column) on the dict at `at`
AppendDerived(ctx, at, column) ==
    LET d == KeyAt(ctx.dicts[at], "$derived")
    IN  [ctx EXCEPT !.dicts[at][d].columns = Append(@, column)]

locate_identifier(node, ctx) ==
    LET dict == ctx.dicts[ctx.schemas]
        positions == [i \in 1 .. Len(dict) |-> i]
        candidate_schemas ==
            IF node.source # ""
            THEN SelectSeq(positions, LAMBDA i : IsCandidate(dict[i].name, node.source))
            ELSE positions
        located == locate_identifier_in_loaded_schemas(node.source_column, dict,
                                                       candidate_schemas)
    IN  IF candidate_schemas = <<>>
        THEN Raised(node, ctx, "UnexpectedDatasetReferenceError")
        ELSE IF located.error # "none"
        THEN Raised(node, ctx, located.error)
        ELSE IF located.column = 0
        THEN IF IsVariable(node.current_name)
             THEN LET schema_column == as_column(node.value, ctx.fresh)
                      new_node == [Node("LITERAL", schema_column.value)
                                     EXCEPT !.schema_column = schema_column]
                  IN  Returned(new_node,
                               [AppendDerived(ctx, ctx.schemas, schema_column)
                                  EXCEPT !.fresh = @ + 1], {})
             ELSE Raised(node, ctx, "ColumnNotFoundError")
        ELSE LET found == dict[located.schema].columns[located.column]
                 add_alias == node.alias # ""
                              /\ \A n \in 1 .. Len(all_names(found)) :
                                     all_names(found)[n] # node.alias
                 column == IF add_alias
                           THEN [found EXCEPT !.aliases = Append(@, node.alias)]
                           ELSE found
             IN  IF IsVariable(node.current_name)
                 THEN Returned([Node("LITERAL", found.value)
                                  EXCEPT !.schema_column = found], ctx, {})
                 ELSE Returned(
                        [node EXCEPT
                           !.source = IF Len(column.origin) = 1 THEN column.origin[1]
                                      ELSE IF @ = "" THEN dict[located.schema].name
                                      ELSE @,
                           !.schema_column = column],
                        [ctx EXCEPT
                           !.dicts[ctx.schemas][located.schema].columns[located.column] = column],
                        {})

\* FUNCTIONS and AGGREGATORS by name
COMBINED_FUNCTIONS == {"ABS", "CASE", "COALESCE", "MAX"}

\* The position of the first schema of a dict that has a column of that name,
\* else 0 (the loop of lines 277-284).
FirstSchemaWith(dict, column_name) ==
    LET S == {i \in 1 .. Len(dict) : find_column(dict[i], column_name) # 0}
    IN  IF S = {} THEN 0 ELSE CHOOSE i \in S : \A j \in S : i <= j

RECURSIVE inner_binder(_, _)
RECURSIVE BindEach(_, _, _, _)
\* zip(*(inner_binder(parm, context) for parm in nodes)) from the i-th node
\* on: every call is made on the one context object; `done` is the result
\* so far, its node the list of the bound nodes.
BindEach(nodes, i, done, child) ==
    IF i > Len(nodes) \/ done.error # "none" THEN done
    ELSE The({BindEach(nodes, i + 1, next, child) :
                next \in {[node |-> Append(done.node, b.node),
                           context |-> b.context,
                           error |-> b.error,
                           skipped |-> done.skipped
                                         \cup Under(child \o ToString(i), b.skipped)] :
                             b \in {inner_binder(nodes[i], done.context)}}})

\* The list bound, then context.schemas = merge_schemas(*[ctx.schemas for ctx
\* in new_contexts]): all of new_contexts are the one context object.
Merged(each) ==
    LET dict == each.context.dicts[each.context.schemas]
        merged_schemas == merge_schemas([i \in 1 .. Len(each.node) |-> Dict(dict)]).dict
    IN  IF each.error # "none" THEN each
        ELSE [each EXCEPT !.context =
                 [@ EXCEPT !.dicts = Append(@, merged_schemas),
                           !.schemas = Len(each.context.dicts) + 1]]

BindAndMerge(nodes, ctx, child) ==
    The({Merged(each) :
           each \in {The({BindEach(nodes, 1, start, child) :
                             start \in {Returned(<<>>, ctx, {})}})}})

\* One `if node.<child>: node.<child>, context = inner_binder(...)`
\* Mutant of BindChild: the child is left as it is.
BindChild_NotVisited(done, child) == done

BindChild(done, child) ==
    IF done.error # "none" \/ done.node[child] = NoNode THEN done
    ELSE The({[node |-> [done.node EXCEPT ![child] = b.node],
               context |-> b.context,
               error |-> b.error,
               skipped |-> done.skipped \cup Under(child, b.skipped)] :
                 b \in {inner_binder(done.node[child], done.context)}})

RECURSIVE BindChildren(_, _, _)
BindChildren(done, children, i) ==
    IF i > Len(children) THEN done
    ELSE The({BindChildren(next, children, i + 1) :
                next \in {BindChild(done, children[i])}})

\* `if node.parameters:` and what follows, after the positional children
BindParameters(positional) ==
    IF positional.error # "none" \/ positional.node.parameters = <<>> THEN positional
    ELSE The({[node |-> [positional.node EXCEPT !.parameters = parameters.node],
               context |-> parameters.context,
               error |-> parameters.error,
               skipped |-> positional.skipped \cup parameters.skipped] :
                 parameters \in {BindAndMerge(positional.node.parameters,
                                              positional.context, "parameters")}})

traversive_recursive_bind(node, ctx) ==
    The({BindParameters(positional) :
           positional \in {The({BindChildren(start, <<"left", "right", "centre">>, 1) :
                                  start \in {Returned(node, ctx, {})}})}})

\* Lines 286-361 of inner_binder: the children, then the node; `schemas` is
\* the position of the dict context.schemas pointed at on line 286.
AfterChildren(node, schemas, column_name, skipped, sub) ==
    LET n == sub.node
        c == sub.context
        derived == c.dicts[schemas][KeyAt(c.dicts[schemas], "$derived")]
        aliases == IF n.alias # "" THEN <<n.alias>> ELSE <<>>
        query_column == IF n.alias # "" THEN n.alias ELSE column_name
        all_skipped == skipped \cup sub.skipped
        Bound(schema_column, context_after) ==
            Returned([n EXCEPT !.schema_column = schema_column,
                               !.query_column = query_column],
                     [context_after EXCEPT !.schemas = schemas], all_skipped)
        at == find_column(derived, column_name)
    IN  IF sub.error # "none" THEN sub
        ELSE IF node.node_type = "LITERAL"
        THEN LET schema_column ==
                     [Column("constant", column_name, aliases, RandomIdentity(c.fresh))
                        EXCEPT !.value = n.value]
             IN  Bound(schema_column,
                       [AppendDerived(c, schemas, schema_column) EXCEPT !.fresh = @ + 1])
        ELSE IF node.node_type # "SUBQUERY" /\ ~n.do_not_create_column
        THEN IF at # 0
             THEN \* the column again as a FlatColumn; its aliases are a list
                  \* holding the alias list, or None, which no name equals
                  LET schema_column == Column("flat", column_name, <<>>,
                                              derived.columns[at].identity)
                      d == KeyAt(c.dicts[schemas], "$derived")
                      others == SelectSeq(derived.columns,
                                    LAMBDA col : col.identity # schema_column.identity)
                  IN  Returned([n EXCEPT !.schema_column = schema_column,
                                         !.query_column = query_column,
                                         !.node_type = "EVALUATED"],
                               [c EXCEPT !.dicts[schemas][d].columns =
                                           Append(others, schema_column)],
                               all_skipped)
             ELSE IF node.node_type \in {"FUNCTION", "AGGREGATOR"}
             THEN IF n.value \notin COMBINED_FUNCTIONS
                  THEN Raised(n, c, "FunctionNotFoundError")
                  ELSE LET schema_column == Column("function", column_name, aliases,
                                                   hash_tree(n))
                       IN  Bound(schema_column, AppendDerived(c, schemas, schema_column))
             ELSE LET schema_column == Column("expression", column_name, aliases,
                                              hash_tree(n))
                  IN  Bound(schema_column, AppendDerived(c, schemas, schema_column))
        ELSE Returned(n, [c EXCEPT !.schemas = schemas], all_skipped)

BindNode(node, ctx, column_name, skipped) ==
    The({AfterChildren(node, ctx.schemas, column_name, skipped, sub) :
           sub \in {traversive_recursive_bind(node, ctx)}})

\* Lines 270-284 of inner_binder, `listed` being the bound members of an
\* EXPRESSION_LIST: the lookup of the node's column name in every schema.
LookUpByName(node, listed) ==
    LET n == IF node.node_type = "EXPRESSION_LIST"
             THEN [node EXCEPT !.members = listed.node]
             ELSE node
        c == listed.context
        dict == c.dicts[c.schemas]
    IN  IF listed.error # "none" THEN Raised(node, c, listed.error)
        ELSE The({IF FirstSchemaWith(dict, column_name) # 0
                  THEN LET hit == FirstSchemaWith(dict, column_name)
                       IN  Returned(
                             [n EXCEPT
                                !.schema_column =
                                    dict[hit].columns[find_column(dict[hit], column_name)],
                                !.query_column =
                                    IF n.alias # "" THEN n.alias ELSE column_name],
                             c, listed.skipped \cup {<<>>})
                  ELSE BindNode(n, c, column_name, listed.skipped) :
                    column_name \in {IF n.query_column # "" THEN n.query_column
                                     ELSE format_expression(n)}})

\* Mutant of AlreadyBound: no node counts as bound.
AlreadyBound_Never(node) == FALSE

\* `node.schema_column is not None` (line 256)
AlreadyBound(node) == node.schema_column # NoColumn

inner_binder(node, ctx) ==
    IF AlreadyBound(node) THEN Returned(node, ctx, {})
    ELSE IF node.node_type \in {"IDENTIFIER", "EVALUATED"} THEN locate_identifier(node, ctx)
    ELSE The({LookUpByName(node, listed) :
                listed \in {IF node.node_type = "EXPRESSION_LIST"
                            THEN BindAndMerge(node.members, ctx, "members")
                            ELSE Returned(<<>>, ctx, {})}})

(***************************************************************************)
(* Binder: the contexts and the expressions a query is bound with.         *)
(***************************************************************************)
FlatColumn(name, aliases, identity) == Column("flat", name, aliases, Text(identity))

RelationSchema(name, columns) == [name |-> name, columns |-> columns]

\* Two relations that both have a column `a`, or a relation and a shared
\* schema that both have it; `$derived` is there and empty.
Environments ==
    {<<RelationSchema("t1", <<FlatColumn("a", <<>>, "t1-a"), FlatColumn("b", <<>>, "t1-b")>>),
       RelationSchema("t2", <<FlatColumn("a", <<>>, "t2-a"), FlatColumn("c", <<"b2">>, "t2-c")>>),
       RelationSchema("$derived", <<>>)>>,
     <<RelationSchema("t1", <<FlatColumn("a", <<>>, "t1-a"), FlatColumn("b", <<>>, "t1-b")>>),
       RelationSchema("$shared-1", <<FlatColumn("a", <<>>, "s1-a")>>),
       RelationSchema("$derived", <<>>)>>}

BinderContexts == {[dicts |-> <<env>>, schemas |-> 1, fresh |-> 0] : env \in Environments}

Identifier(source, name, alias) ==
    [Node("IDENTIFIER", name) EXCEPT !.source = source, !.source_column = name,
                                     !.current_name = name, !.alias = alias]

Literal(value) == Node("LITERAL", value)

Binary(value, left, right) ==
    [Node("BINARY_OPERATOR", value) EXCEPT !.left = left, !.right = right]

Function(value, parameters) == [Node("FUNCTION", value) EXCEPT !.parameters = parameters]

ExpressionList(members) == [Node("EXPRESSION_LIST", "") EXCEPT !.members = members]

Identifiers ==
    {Identifier("", "a", ""), Identifier("", "b", ""), Identifier("", "b", "bee"),
     Identifier("t1", "a", ""), Identifier("t3", "a", ""), Identifier("", "b2", ""),
     Identifier("", "zz", ""), Identifier("", "@v", "")}

Literals ==
    {Literal("1"),
     [Literal("1") EXCEPT !.do_not_create_column = TRUE],
     [Literal("2") EXCEPT !.alias = "two"]}

Operands == {Identifier("", "b", ""), Literal("1")}

Binaries ==
    {Binary(value, Identifier("", "b", ""), right) :
        value \in {"Plus", "Minus"}, right \in Operands}
    \cup {[Binary("Plus", Identifier("", "b", ""), Literal("1"))
             EXCEPT !.do_not_create_column = TRUE],
          \* named as the alias of its own operand
          [Binary("Plus", Identifier("", "b", ""), [Literal("2") EXCEPT !.alias = "two"])
             EXCEPT !.query_column = "two"]}

Functions ==
    {Function("ABS", <<Binary("Plus", Identifier("", "b", ""), Literal("1"))>>),
     Function("COALESCE", <<Binary("Plus", Identifier("", "b", ""), Literal("1")),
                            Binary("Plus", Identifier("", "b", ""), Literal("1"))>>),
     Function("MAX", <<Identifier("", "b", "")>>),
     Function("NOPE", <<Identifier("", "b", "")>>),
     \* CASE WHEN b THEN 1 END: the conditions and the values are two lists
     Function("CASE", <<ExpressionList(<<Identifier("", "b", "")>>),
                        ExpressionList(<<Literal("1")>>)>>)}

Others ==
    {Node("SUBQUERY", "plan"),
     ExpressionList(<<Identifier("", "b", ""), Literal("1")>>)}

\* The unbound expressions of the model.
Expressions == Identifiers \cup Literals \cup Binaries \cup Functions \cup Others

\* The nodes of a tree with their paths from the root, through left, right,
\* centre and parameters, and through the members of a list when asked.
RECURSIVE Subtrees(_, _)
SubtreesOfList(nodes, child, through_members) ==
    UNION {{[path |-> <<child \o ToString(i)>> \o sub.path, node |-> sub.node] :
               sub \in Subtrees(nodes[i], through_members)} : i \in 1 .. Len(nodes)}

Subtrees(node, through_members) ==
    {[path |-> <<>>, node |-> node]}
    \cup UNION {{[path |-> <<child>> \o sub.path, node |-> sub.node] :
                    sub \in Subtrees(node[child], through_members)} :
                 child \in {c \in {"left", "right", "centre"} : node[c] # NoNode}}
    \cup SubtreesOfList(node.parameters, "parameters", through_members)
    \cup (IF through_members
          THEN SubtreesOfList(node.members, "members", through_members)
          ELSE {})

\* The derived columns the nodes of a returned tree are bound to, by name and
\* identity.
DerivedColumnsOf(node) ==
    {[name |-> sub.node.schema_column.name, identity |-> sub.node.schema_column.identity] :
        sub \in {t \in Subtrees(node, TRUE) :
                    /\ t.node.schema_column # NoColumn
                    /\ t.node.schema_column.kind # "flat"}}

NoBind ==
    [op |-> "none", node |-> NoNode, before |-> [dicts |-> <<>>, schemas |-> 0, fresh |-> 0],
     result |-> NoNode, error |-> "none", skipped |-> {}, columns |-> {}]

BindInit ==
    /\ context \in BinderContexts
    /\ bound = NoBind
    /\ binds = 0

\* inner_binder(node, context), the context object being changed in place;
\* `bound` keeps the call, and the derived columns the trees returned so far
\* are bound to.
Call(op, node) ==
    \E r \in {inner_binder(node, context)} :
        /\ bound' = [op |-> op, node |-> node, before |-> context, result |-> r.node,
                     error |-> r.error, skipped |-> r.skipped,
                     columns |-> IF r.error = "none"
                                 THEN bound.columns \cup DerivedColumnsOf(r.node)
                                 ELSE bound.columns]
        /\ context' = r.context
        /\ binds' = binds + 1

\* The next expression of the query is bound.
Bind(expression) ==
    /\ UNCHANGED notBindVars
    /\ binds < MaxBinds
    /\ bound.error = "none"
    /\ Call("bind", expression)

\* The node the last call returned is bound again.
Rebind ==
    /\ UNCHANGED notBindVars
    /\ binds < MaxBinds
    /\ bound.op # "none"
    /\ bound.error = "none"
    /\ Call("rebind", bound.result)

BindNext ==
    \/ \E expression \in Expressions : Bind(expression)
    \/ Rebind

(***************************************************************************)
(* hash_tree on the trees the binder calls it with: operator and function  *)
(* nodes that are not bound yet, over operands that are.                   *)
(***************************************************************************)
\* The operands: the column b of t1 without and with an alias, and the
\* literal 1, each bound.
HashOperands ==
    {[Identifier("t1", "b", alias) EXCEPT
         !.schema_column = FlatColumn("b", <<>>, "t1-b")] : alias \in {"", "bee"}}
    \cup {[Literal("1") EXCEPT
              !.schema_column = Column("constant", "1", <<>>, Text("random-1"))]}

HashInputs ==
    {Binary(value, left, right) :
        value \in {"Plus", "Minus"}, left \in HashOperands, right \in HashOperands}
    \cup {Function(value, <<parameter>>) :
             value \in {"ABS", "MAX"}, parameter \in HashOperands}
    \cup {Function("COALESCE", <<left, right>>) :
             left \in HashOperands, right \in HashOperands}

\* The tree with the children of every node in the opposite order.
RECURSIVE Mirror(_)
Mirror(node) ==
    IF node = NoNode THEN NoNode
    ELSE [node EXCEPT
            !.left = Mirror(node.right),
            !.right = Mirror(node.left),
            !.centre = Mirror(node.centre),
            !.parameters = [i \in 1 .. Len(node.parameters) |->
                               Mirror(node.parameters[Len(node.parameters) + 1 - i])]]

\* Two trees to hash.
HashInit ==
    \E one \in HashInputs, other \in HashInputs :
        hashed = [called |-> FALSE, one |-> one, other |-> other]

HashIdle == HashInit /\ hashed.one.value = "ABS" /\ hashed.other = hashed.one
               /\ hashed.one.parameters[1].node_type = "LITERAL"

\* hash_tree on the two trees; inner on the first and on its mirror image.
HashTrees ==
    /\ ~hashed.called
    /\ UNCHANGED notHashVars
    /\ hashed' = [called |-> TRUE,
                  one |-> hashed.one,
                  other |-> hashed.other,
                  identity_one |-> hash_tree(hashed.one),
                  identity_other |-> hash_tree(hashed.other),
                  inner_one |-> inner(hashed.one),
                  inner_mirrored |-> inner(Mirror(hashed.one))]

HashNext == HashTrees

(***************************************************************************)
(* The predicate rewriter: _rewrite_predicate and the visitor that applies *)
(* it to the condition of a Filter and to the columns of a Project.        *)
(***************************************************************************)
IN_REWRITES(value) == IF value = "InList" THEN "Eq" ELSE "NotEq"

LIKE_REWRITES(value) == IF value = "Like" THEN "Eq" ELSE "NotEq"

\* text[i] of a Python string, counted from 1
CharAt(text, i) == SubSeq(text, i, i)

\* `part in text`
Contains(text, part) ==
    \E i \in 1 .. (Len(text) - Len(part) + 1) : SubSeq(text, i, i + Len(part) - 1) = part

\* text.count(char)
Count(text, char) == Cardinality({i \in 1 .. Len(text) : CharAt(text, i) = char})

\* re.sub(r"%+", "%", text)
RECURSIVE CollapseWildcards(_)
CollapseWildcards(text) ==
    IF Len(text) < 2 THEN text
    ELSE IF CharAt(text, 1) = "%" /\ CharAt(text, 2) = "%"
         THEN CollapseWildcards(SubSeq(text, 2, Len(text)))
         ELSE CharAt(text, 1) \o CollapseWildcards(SubSeq(text, 2, Len(text)))

\* opteryx.managers.expression.ExpressionColumn(name=, type=); orso gives it
\* a random identity.
ExpressionColumn(name, type, fresh) ==
    [kind |-> "expression", name |-> name, type |-> type,
     identity |-> RandomIdentity(fresh)]

\* The result type of a binary operator on operands of two types.
OperatorMap(left_type, right_type, operator) ==
    CASE left_type = "DATE" /\ right_type = "DATE" /\ operator = "Minus" -> "INTERVAL"
      [] left_type = "INTERVAL" /\ right_type = "INTERVAL"
           /\ operator \in {"Plus", "Minus"} -> "INTERVAL"
      [] left_type = "DATE" /\ right_type = "INTERVAL"
           /\ operator \in {"Plus", "Minus"} -> "DATE"
      [] OTHER -> "None"

\* opteryx.planner.binder.operator_map.determine_type: the type a node
\* resolves to.
RECURSIVE determine_type(_)
determine_type(node) ==
    IF node.node_type = "BINARY_OPERATOR"
    THEN OperatorMap(determine_type(node.left), determine_type(node.right), node.value)
    ELSE node.type

remove_adjacent_wildcards(predicate) ==
    IF Contains(predicate.right.value, "%%")
    THEN [predicate EXCEPT !.right.value = CollapseWildcards(@)]
    ELSE predicate

AsFunction_CaseSensitive(predicate, name, pattern) ==
    LET stripped == [predicate.right EXCEPT !.value = pattern]
    IN  [predicate EXCEPT
            !.right = stripped,
            !.node_type = "FUNCTION",
            !.value = name,
            !.parameters =
                <<predicate.left, stripped,
                  [Node("LITERAL", "False") EXCEPT !.type = "BOOLEAN"]>>]

\* What the three rewrites to a function do once the new pattern is known;
\* str(ignore_case) stands for the boolean.
AsFunction(predicate, name, pattern) ==
    LET ignore_case == predicate.value = "ILike"
        stripped == [predicate.right EXCEPT !.value = pattern]
    IN  [predicate EXCEPT
            !.right = stripped,
            !.node_type = "FUNCTION",
            !.value = name,
            !.parameters =
                <<predicate.left, stripped,
                  [Node("LITERAL", IF ignore_case THEN "True" ELSE "False")
                      EXCEPT !.type = "BOOLEAN"]>>]

rewrite_to_starts_with(predicate) ==
    AsFunction(predicate, "STARTS_WITH",
               SubSeq(predicate.right.value, 1, Len(predicate.right.value) - 1))

rewrite_to_ends_with(predicate) ==
    AsFunction(predicate, "ENDS_WITH",
               SubSeq(predicate.right.value, 2, Len(predicate.right.value)))

rewrite_to_search(predicate) ==
    AsFunction(predicate, "SEARCH",
               SubSeq(predicate.right.value, 2, Len(predicate.right.value) - 1))

rewrite_in_to_eq_KeepsType(predicate) ==
    [predicate EXCEPT
        !.value = IN_REWRITES(@),
        !.right.value = predicate.right.members[Len(predicate.right.members)],
        !.right.members = <<>>]

\* The collection of an IN list is in `members`; pop() takes its one element.
rewrite_in_to_eq(predicate) ==
    [predicate EXCEPT
        !.value = IN_REWRITES(@),
        !.right.value = predicate.right.members[Len(predicate.right.members)],
        !.right.members = <<>>,
        !.right.type = IF predicate.right.sub_type = "None" THEN "VARCHAR"
                       ELSE predicate.right.sub_type,
        !.right.sub_type = "None"]

reorder_interval_calc_PlusOnLeft(predicate) ==
    IF predicate.left.value = "Minus"
    THEN LET plus == Binary("Plus", predicate.left.right, predicate.right)
             new_binary_op ==
                 [plus EXCEPT !.schema_column =
                     ExpressionColumn(format_expression(plus), "TIMESTAMP", 1)]
             moved == [predicate EXCEPT !.node_type = "COMPARISON_OPERATOR",
                                        !.left = new_binary_op,
                                        !.right = predicate.left.left]
         IN  [moved EXCEPT !.schema_column =
                 ExpressionColumn(format_expression(moved), "BOOLEAN", 2)]
    ELSE NoNode

\* Returns None, here NoNode, when the left operand is not a difference.
reorder_interval_calc(predicate) ==
    IF predicate.left.value = "Minus"
    THEN LET date_start == predicate.left.right
             date_end == predicate.left.left
             interval == predicate.right
             plus == Binary("Plus", date_start, interval)
             new_binary_op ==
                 [plus EXCEPT !.schema_column =
                     ExpressionColumn(format_expression(plus), "TIMESTAMP", 1)]
             moved == [predicate EXCEPT !.node_type = "COMPARISON_OPERATOR",
                                        !.right = new_binary_op,
                                        !.left = date_end]
         IN  [moved EXCEPT !.schema_column =
                 ExpressionColumn(format_expression(moved), "BOOLEAN", 2)]
    ELSE NoNode

\* What a step of _rewrite_predicate leaves: the predicate so far, whether
\* the function has returned, and the error it raised.
Goes(predicate) == [node |-> predicate, returned |-> FALSE, error |-> ""]

Returns(predicate) == [node |-> predicate, returned |-> TRUE, error |-> ""]

Raises(predicate, error) == [node |-> predicate, returned |-> TRUE, error |-> error]

LikeToEq_PercentOnly(predicate) ==
    IF predicate.value \in {"Like", "NotLike"} /\ ~Contains(predicate.right.value, "%")
    THEN [predicate EXCEPT !.value = LIKE_REWRITES(@)]
    ELSE predicate

\* lines 198-204: the wildcards collapsed, then Like without a wildcard to Eq
LikeToEq(predicate) ==
    IF predicate.value \in {"Like", "NotLike"}
       /\ ~Contains(predicate.right.value, "%")
       /\ ~Contains(predicate.right.value, "_")
    THEN [predicate EXCEPT !.value = LIKE_REWRITES(@)]
    ELSE predicate

CollapseThenLikeToEq(predicate) ==
    IF predicate.value \in {"Like", "ILike", "NotLike", "NotILike"}
    THEN The({LikeToEq(collapsed) : collapsed \in {remove_adjacent_wildcards(predicate)}})
    ELSE predicate

\* lines 206-220; value[-1] and value[0] of an empty pattern raise IndexError
LikeToFunction(predicate) ==
    LET value == predicate.right.value
    IN  IF /\ predicate.value \in {"Like", "ILike"}
           /\ predicate.left.source_connector # {}
           /\ predicate.left.source_connector \cap {"Sql", "Cql"} = {}
           /\ predicate.right.node_type = "LITERAL"
        THEN IF Len(value) = 0 THEN Raises(predicate, "IndexError")
             ELSE IF CharAt(value, Len(value)) = "%" /\ Count(value, "%") = 1
             THEN Returns(rewrite_to_starts_with(predicate))
             ELSE IF CharAt(value, 1) = "%" /\ Count(value, "%") = 1
             THEN Returns(rewrite_to_ends_with(predicate))
             ELSE IF /\ CharAt(value, 1) = "%"
                     /\ CharAt(value, Len(value)) = "%"
                     /\ Count(value, "%") = 2
             THEN Returns(rewrite_to_search(predicate))
             ELSE Goes(predicate)
        ELSE Goes(predicate)

\* lines 222-228
AnyToIn(predicate) ==
    IF predicate.value = "AnyOpEq" /\ predicate.right.node_type = "LITERAL"
    THEN [predicate EXCEPT !.value = "InList"]
    ELSE predicate

InToEq(predicate) ==
    IF /\ predicate.value \in {"InList", "NotInList"}
       /\ predicate.right.node_type = "LITERAL"
       /\ Len(predicate.right.members) = 1
    THEN Returns(rewrite_in_to_eq(predicate))
    ELSE Goes(predicate)

\* lines 230-240
ReorderInterval(predicate) ==
    IF /\ predicate.node_type = "COMPARISON_OPERATOR"
       /\ predicate.left.node_type = "BINARY_OPERATOR"
       /\ determine_type(predicate.left) = "INTERVAL"
       /\ determine_type(predicate.right) = "INTERVAL"
    THEN Returns(reorder_interval_calc(predicate))
    ELSE Returns(predicate)

\* One step after another, until one returns or raises.
Then(step_result, NextStep(_)) ==
    The({IF result.returned THEN result ELSE NextStep(result.node) :
            result \in {step_result}})

\* lines 194-196
RewriteChildren(predicate, left, right) ==
    IF left.error # "" THEN Raises(predicate, left.error)
    ELSE IF right.error # "" THEN Raises([predicate EXCEPT !.left = left.node], right.error)
    ELSE Goes([predicate EXCEPT !.left = left.node, !.right = right.node])

RECURSIVE _rewrite_predicate(_)
_rewrite_predicate(predicate) ==
    IF predicate = NoNode THEN Raises(predicate, "AttributeError")
    ELSE IF predicate.node_type \notin {"BINARY_OPERATOR", "COMPARISON_OPERATOR"}
    THEN Returns(predicate)
    ELSE
      LET Start(p) ==
              IF p.node_type \in {"AND", "OR", "XOR"}
              THEN The({RewriteChildren(p, left, right) :
                          left \in {_rewrite_predicate(p.left)},
                          right \in {_rewrite_predicate(p.right)}})
              ELSE Goes(p)
          Likes(p) == Goes(CollapseThenLikeToEq(p))
          Ins(p) == The({InToEq(renamed) : renamed \in {AnyToIn(p)}})
      IN  Then(Then(Then(Then(Start(predicate), Likes), LikeToFunction), Ins),
               ReorderInterval)

\* PredicateRewriteStrategy.visit on one node of the logical plan: what the
\* node is afterwards, whether it was written to the optimized plan, and the
\* error raised.
RECURSIVE RewriteColumns(_, _)
RewriteColumns(columns, i) ==
    IF i > Len(columns) THEN [columns |-> <<>>, error |-> ""]
    ELSE The({IF first.error # "" THEN [columns |-> <<>>, error |-> first.error]
              ELSE The({[columns |-> <<first.node>> \o rest.columns, error |-> rest.error] :
                          rest \in {RewriteColumns(columns, i + 1)}}) :
                first \in {_rewrite_predicate(columns[i])}})

visit(node) ==
    IF node.node_type = "Filter"
    THEN The({IF result.error # ""
              THEN [node |-> node, written |-> FALSE, error |-> result.error]
              ELSE [node |-> [node EXCEPT !.condition = result.node],
                    written |-> TRUE, error |-> ""] :
                result \in {_rewrite_predicate(node.condition)}})
    ELSE IF node.node_type = "Project"
    THEN The({IF result.error # ""
              THEN [node |-> node, written |-> FALSE, error |-> result.error]
              ELSE [node |-> [node EXCEPT !.columns = result.columns],
                    written |-> FALSE, error |-> ""] :
                result \in {RewriteColumns(node.columns, 1)}})
    ELSE [node |-> node, written |-> FALSE, error |-> ""]

(***************************************************************************)
(* The plan nodes the rewriter is given: bound predicates.                 *)
(***************************************************************************)
LogicalPlanNode(node_type, condition, columns) ==
    [node_type |-> node_type, condition |-> condition, columns |-> columns]

\* A bound column of a relation read through the connectors given.
BoundColumn(name, type, source_connector) ==
    [Identifier("t1", name, "") EXCEPT
        !.type = type,
        !.source_connector = source_connector,
        !.schema_column = FlatColumn(name, <<>>, "t1-" \o name)]

BoundLiteral(value, type) ==
    [Literal(value) EXCEPT
        !.type = type,
        !.schema_column = Column("constant", value, <<>>, Text("constant-" \o value))]

\* The literal of an IN list: its collection is in `members`.
ListLiteral(members, sub_type) ==
    [Literal("") EXCEPT
        !.type = "ARRAY",
        !.sub_type = sub_type,
        !.members = members,
        !.schema_column = Column("constant", "", <<>>, Text("constant-list"))]

Comparison(value, left, right) ==
    [Node("COMPARISON_OPERATOR", value) EXCEPT !.left = left, !.right = right]

Connective(node_type, left, right) ==
    [Node(node_type, "") EXCEPT !.left = left, !.right = right]

PatternAlphabet == {"a", "%", "_"}

\* The patterns of at most n characters.
RECURSIVE Patterns(_)
Patterns(n) ==
    IF n = 0 THEN {""}
    ELSE {""} \cup {char \o pattern : char \in PatternAlphabet, pattern \in Patterns(n - 1)}

\* Two longer patterns: a third % between two at the ends.
LongPatterns == {"%a%a%", "%a%_%"}

Connectors == {{}, {"Blob"}, {"Sql"}}

LikePredicates ==
    {Comparison(value, BoundColumn("x", "VARCHAR", source_connector),
                BoundLiteral(pattern, "VARCHAR")) :
        value \in {"Like", "ILike", "NotLike", "NotILike"},
        source_connector \in Connectors,
        pattern \in Patterns(MaxPattern) \cup LongPatterns}
    \cup {Comparison(value, BoundColumn("x", "VARCHAR", {"Blob"}),
                     BoundColumn("y", "VARCHAR", {"Blob"})) :
             value \in {"Like", "ILike"}}

Difference == Binary("Minus", BoundColumn("end", "DATE", {"Blob"}),
                     BoundColumn("start", "DATE", {"Blob"}))

IntervalSum == Binary("Plus", BoundLiteral("1 day", "INTERVAL"),
                      BoundLiteral("2 days", "INTERVAL"))

InPredicates ==
    {Comparison(value, left, ListLiteral(members, sub_type)) :
        value \in {"InList", "NotInList", "AnyOpEq"},
        left \in {BoundColumn("x", "VARCHAR", {"Blob"}), Difference},
        members \in {<<"a">>, <<"a", "b">>},
        sub_type \in {"None", "INTERVAL"}}
    \cup {Comparison("AnyOpEq", BoundLiteral("a", "VARCHAR"),
                     BoundColumn("tags", "ARRAY", {"Blob"}))}

IntervalPredicates ==
    {Comparison(value, left, right) :
        value \in {"Gt", "Lt"},
        left \in {Difference, IntervalSum, BoundColumn("x", "INTERVAL", {"Blob"})},
        right \in {BoundLiteral("7 days", "INTERVAL"), BoundLiteral("7", "INTEGER")}}

\* The comparisons put under a connective.
Nested ==
    {Comparison("Like", BoundColumn("x", "VARCHAR", {"Blob"}), BoundLiteral(pattern, "VARCHAR")) :
        pattern \in {"a", "a%"}}
    \cup {Comparison("InList", BoundColumn("x", "VARCHAR", {"Blob"}), ListLiteral(<<"a">>, "None")),
          Comparison("Eq", BoundColumn("x", "VARCHAR", {"Blob"}), BoundLiteral("a", "VARCHAR"))}

Connectives ==
    {Connective(node_type, left, right) :
        node_type \in {"AND", "OR", "XOR"}, left \in Nested, right \in Nested}

Predicates == LikePredicates \cup InPredicates \cup IntervalPredicates \cup Connectives

Projections ==
    {<<column>> : column \in Nested \cup {Difference, BoundColumn("x", "VARCHAR", {"Blob"})}}
    \cup {<<left, right>> : left \in Nested, right \in Nested}

PlanNodes ==
    {LogicalPlanNode("Filter", condition, <<>>) : condition \in Predicates}
    \cup {LogicalPlanNode("Project", NoNode, columns) : columns \in Projections}
    \cup {LogicalPlanNode("Scan", NoNode, <<>>)}

NoVisits == [count |-> 0, before |-> LogicalPlanNode("None", NoNode, <<>>),
             written |-> FALSE, error |-> ""]

RewriteInit ==
    /\ plan_node \in PlanNodes
    /\ visits = NoVisits

RewriteIdle == RewriteInit /\ plan_node.node_type = "Scan"

\* The optimizer visits the node once more.
Visit ==
    /\ visits.count < MaxVisits
    /\ visits.error = ""
    /\ \E result \in {visit(plan_node)} :
          /\ plan_node' = result.node
          /\ visits' = [count |-> visits.count + 1, before |-> plan_node,
                        written |-> result.written, error |-> result.error]
    /\ UNCHANGED notRewriteVars

RewriteNext == Visit

(***************************************************************************)
(* merge_schemas on its own: the arguments and one call.                   *)
(***************************************************************************)
\* A value kept under a key that is not a RelationSchema: None.
NotASchema(key) == [name |-> key, value |-> "None"]

\* An argument that is not a dict: None.
NotADict == [type |-> "NoneType", entries |-> <<>>]

\* What one dict can keep under a key: one of two schemas of that name, which
\* share a column, or None.
ValuesUnder(key) ==
    {RelationSchema(key, <<Column("flat", "id", <<>>, Text(key \o "-id"))>>),
     RelationSchema(key, <<Column("flat", "id", <<>>, Text(key \o "-id")),
                           Column("flat", "name", <<>>, Text(key \o "-name"))>>),
     NotASchema(key)}

\* The dicts over the keys t1 and t2, and the argument that is not a dict.
MergeArguments ==
    {Dict(<<>>)}
    \cup {Dict(<<one>>) : one \in ValuesUnder("t1") \cup ValuesUnder("t2")}
    \cup {Dict(<<one, two>>) : one \in ValuesUnder("t1"), two \in ValuesUnder("t2")}
    \cup {NotADict}

RECURSIVE ArgumentLists(_)
ArgumentLists(n) ==
    IF n = 0 THEN {<<>>}
    ELSE {<<>>} \cup {<<first>> \o rest : first \in MergeArguments,
                                           rest \in ArgumentLists(n - 1)}

NotMerged == [called |-> FALSE, dict |-> <<>>, error |-> "none"]

MergeInit ==
    \E schemas \in ArgumentLists(MaxMerged) :
        merging = [schemas |-> schemas, result |-> NotMerged]

MergeIdle == merging = [schemas |-> <<>>, result |-> NotMerged]

\* merge_schemas(*schemas) is called.
MergeSchemas ==
    /\ ~merging.result.called
    /\ \E merged \in {merge_schemas(merging.schemas)} :
           merging' = [merging EXCEPT !.result =
                          [called |-> TRUE, dict |-> merged.dict, error |-> merged.error]]
    /\ UNCHANGED notMergeVars

MergeNext == MergeSchemas

(***************************************************************************)
(* The specifications: one part runs, the others stay as constructed.     *)
(***************************************************************************)
JoinIdle == JoinInit /\ key_type = "integer" /\ left_columns = <<LeftKeyName>>

ScanIdle == ScanInit /\ num_blobs = 0

BindIdle == BindInit /\ context.dicts[1][2].name = "t2"

InitJoin == JoinInit /\ ScanIdle /\ BindIdle /\ HashIdle /\ RewriteIdle /\ MergeIdle

SpecJoin == InitJoin /\ [][JoinNext]_vars

InitScan == ScanInit /\ JoinIdle /\ BindIdle /\ HashIdle /\ RewriteIdle /\ MergeIdle

SpecScan == InitScan /\ [][ScanNext]_vars

InitBind == BindInit /\ JoinIdle /\ ScanIdle /\ HashIdle /\ RewriteIdle /\ MergeIdle

SpecBind == InitBind /\ [][BindNext]_vars

InitHash == HashInit /\ JoinIdle /\ ScanIdle /\ BindIdle /\ RewriteIdle /\ MergeIdle

SpecHash == InitHash /\ [][HashNext]_vars

InitRewrite == RewriteInit /\ JoinIdle /\ ScanIdle /\ BindIdle /\ HashIdle /\ MergeIdle

SpecRewrite == InitRewrite /\ [][RewriteNext]_vars

InitMerge == MergeInit /\ JoinIdle /\ ScanIdle /\ BindIdle /\ HashIdle /\ RewriteIdle

SpecMerge == InitMerge /\ [][MergeNext]_vars

(***************************************************************************)
(* Join: properties.                                                       *)
(***************************************************************************)
\* The reference inner join on the key: the pairs of rows whose keys are both
\* non-null and equal.
ReferencePairs(left, right) ==
    {p \in (1 .. Len(left)) \X (1 .. Len(right)) :
        /\ left[p[1]].valid
        /\ right[p[2]].valid
        /\ left[p[1]].value = right[p[2]].value}

\* The (left_row, right_row) pairs of a yielded morsel.
YieldedPairs == {<<yielded.left_indexes[i], yielded.right_indexes[i]>> :
                    i \in 1 .. Len(yielded.left_indexes)}

\* The yielded morsel holds exactly the pairs of the reference join, each once.
EqualsReferenceJoin ==
    /\ Len(yielded.left_indexes) = Len(yielded.right_indexes)
    /\ YieldedPairs = ReferencePairs(left_relation.rows, right_relation)
    /\ Len(yielded.left_indexes) = Cardinality(ReferencePairs(left_relation.rows, right_relation))

HashedTypes == {"floating", "fixed_size_binary", "binary", "string"}

\* C1: for integer keys the morsel execute yields holds exactly the pairs
\* (left_row, right_row) whose keys are both non-null and equal, each with the
\* multiplicity of the reference inner join.
C1_IntegerJoinEqualsReference ==
    (key_type = "integer" /\ yielded.morsel) => EqualsReferenceJoin

\* C1 witness: an integer join with a null before a live row on the left, a
\* null on the right, and a key matched by two left rows.
C1_Witness ==
    /\ key_type = "integer"
    /\ yielded.morsel
    /\ Len(left_relation.rows) = 3
    /\ ~left_relation.rows[1].valid
    /\ \E r \in 1 .. Len(right_relation) : ~right_relation[r].valid
    /\ Len(yielded.left_indexes) = 2

\* C2: for float, fixed-size-binary, binary and string keys the yielded morsel
\* equals the reference inner join: every emitted pair has equal key values,
\* also when two distinct keys have the same hash.
C2_HashedJoinEqualsReference ==
    (key_type \in HashedTypes /\ yielded.morsel) => EqualsReferenceJoin

\* The rows stored in the hash table.
RowsInTable(table) == UNION {{table[k][i] : i \in 1 .. Len(table[k])} : k \in DOMAIN table}

SeqRange(q) == {q[i] : i \in 1 .. Len(q)}

\* C3: null keys never match, for every key type: no left row with a null key
\* is in the hash table, no right row with a null key is looked up, and no
\* pair of a yielded morsel has a row with a null key on either side.
C3_NullKeysNeverMatch ==
    /\ left_hash.set =>
           \A l \in RowsInTable(left_hash.table) : left_relation.rows[l].valid
    /\ yielded.morsel =>
           /\ \A r \in SeqRange(yielded.probed) : right_relation[r].valid
           /\ \A l \in SeqRange(yielded.left_indexes) : left_relation.rows[l].valid
           /\ \A r \in SeqRange(yielded.right_indexes) : right_relation[r].valid

\* C3 witness: a string join that yields a pair although the left side holds a
\* null whose slot has the data of a live right key, and the right side a null
\* whose slot has the data of a live left key.
C3_Witness ==
    /\ key_type = "string"
    /\ yielded.morsel
    /\ Len(yielded.left_indexes) >= 1
    /\ \E l \in 1 .. Len(left_relation.rows), r \in 1 .. Len(right_relation) :
           /\ ~left_relation.rows[l].valid
           /\ right_relation[r].valid
           /\ right_relation[r].value = left_relation.rows[l].value
    /\ \E l \in 1 .. Len(left_relation.rows), r \in 1 .. Len(right_relation) :
           /\ left_relation.rows[l].valid
           /\ ~right_relation[r].valid
           /\ right_relation[r].value = left_relation.rows[l].value

(***************************************************************************)
(* Scan: properties.                                                       *)
(***************************************************************************)
BlobMorselsEmitted == {i \in 1 .. Len(emitted) : emitted[i].kind = "blob"}

EmptyMorselsEmitted == {i \in 1 .. Len(emitted) : emitted[i].kind = "empty"}

\* C4: with an empty blob listing execute emits exactly one (empty) morsel and
\* terminates; no second morsel is emitted in that run.
C4_EmptyListingEmitsOneMorsel ==
    num_blobs = 0 =>
        /\ Len(emitted) <= 1
        /\ op_pc = "done" => Len(emitted) = 1

\* C5: a decode that fails with the "No match for" schema error fails the scan
\* with DataError: the error leaves execute, it is not a logged blob failure.
C5_SchemaDriftFailsScan ==
    \A i \in 1 .. Len(handled) :
        handled[i].outcome = "decode_no_match" =>
            /\ op_pc = "failed"
            /\ scan_error = "DataError"

\* The failures other than the schema-drift error.
OtherFailures == Outcomes \ {"ok", "decode_no_match"}

\* C6: a blob whose decoding or normalising fails with another error adds one
\* message to the log and one to failed_reads, emits no morsel, and leaves the
\* scan polling with the rest of the queue; when the scan is done every result
\* that was enqueued has been handled.
C6_BlobFailureIsLoggedAndScanGoesOn ==
    /\ [][(/\ Len(handled') = Len(handled) + 1
           /\ handled'[Len(handled')].outcome \in OtherFailures)
          => /\ statistics'.messages = Append(statistics.messages, Head(data_queue))
             /\ statistics'.failed_reads = statistics.failed_reads + 1
             /\ emitted' = emitted
             /\ op_pc' = "polling"
             /\ data_queue' = Tail(data_queue)]_vars
    /\ [](op_pc = "done" =>
             \A b \in Blobs : task_pc[b] = "done" =>
                 \E i \in 1 .. Len(handled) : handled[i].blob = b)

\* C6 witness: a finished scan in which a blob failed after its decode and a
\* blob handled later was emitted.
C6_Witness ==
    /\ op_pc = "done"
    /\ \E i, j \in 1 .. Len(handled) :
           /\ i < j
           /\ handled[i].outcome = "normalise_error"
           /\ handled[j].outcome = "ok"
    /\ statistics.failed_reads = 1

\* C7: after the termination marker a scan of a non-empty listing that emitted
\* no morsel emits exactly one empty morsel with the relation schema, and one
\* that emitted a morsel emits no empty morsel: every such run emits a morsel.
C7_EmptyResultEmitsOneEmptyMorsel ==
    (op_pc = "done" /\ num_blobs > 0) =>
        /\ Len(emitted) >= 1
        /\ BlobMorselsEmitted = {} => emitted = <<EmptyMorsel(ConvertedArrowSchema)>>
        /\ BlobMorselsEmitted # {} => EmptyMorselsEmitted = {}

\* The reads between acquiring and releasing the semaphore slot.
InFlight == {b \in Blobs : task_pc[b] = "reading"}

\* C8: at most CONCURRENT_READS blob reads are in flight in every state.
C8_AtMostKReadsInFlight == Cardinality(InFlight) <= CONCURRENT_READS

\* C8 witness: every slot is taken and a task waits for one.
C8_Witness ==
    /\ Cardinality(InFlight) = CONCURRENT_READS
    /\ semaphore = 0
    /\ \E b \in Blobs : task_pc[b] = "pending"

\* C9: when a blob read raises in the background executor the failure leaves
\* execute and the scan ends; the operator thread is never left polling an
\* empty queue that no termination marker will reach.
C9_ReadFailureEndsScan ==
    ex_pc = "crashed" => ~(op_pc = "polling" /\ data_queue = <<>>)

\* C10: all morsels emitted by one run have the same schema.
C10_OneSchemaPerRun ==
    \A i, j \in 1 .. Len(emitted) : emitted[i].schema = emitted[j].schema

\* C10 witness: a finished scan that emitted the morsels of two blobs whose
\* decoded column types differ.
C10_Witness ==
    /\ op_pc = "done"
    /\ \E i, j \in 1 .. Len(handled) :
           /\ i < j
           /\ handled[i].outcome = "ok"
           /\ handled[j].outcome = "ok"
           /\ handled[i].types # handled[j].types
    /\ Len(emitted) >= 2

\* The sum of f over the indexes of a sequence.
RECURSIVE SumTo(_, _)
SumTo(f, n) == IF n = 0 THEN 0 ELSE f[n] + SumTo(f, n - 1)

\* C11: rows_read equals the total rows of the morsels emitted from blobs (the
\* rows left once the decoder applied the selection), rows_seen the total of
\* the row counts the decoder reported, and a blob that fails adds nothing to
\* rows_read.
C11_RowsReadCountsEmittedRows ==
    /\ statistics.rows_read =
           SumTo([i \in 1 .. Len(emitted) |-> emitted[i].num_rows], Len(emitted))
    /\ statistics.rows_seen =
           SumTo([i \in 1 .. Len(handled) |->
                     IF handled[i].outcome \in InnerErrors
                     THEN 0 ELSE DecodedNumRows(handled[i].blob)], Len(handled))
    /\ statistics.rows_read =
           SumTo([i \in 1 .. Len(handled) |->
                     IF handled[i].outcome = "ok"
                     THEN DecodedMorselRows(handled[i].blob) ELSE 0], Len(handled))

\* C11 witness: a finished scan that emitted a blob whose morsel has fewer
\* rows than the decoder reported and one that kept them all, and in which a
\* blob failed after its decode.
C11_Witness ==
    /\ op_pc = "done"
    /\ \E i, j, k \in 1 .. Len(handled) :
           /\ handled[i].outcome = "ok"
           /\ DecodedMorselRows(handled[i].blob) < DecodedNumRows(handled[i].blob)
           /\ handled[j].outcome = "ok"
           /\ DecodedMorselRows(handled[j].blob) = DecodedNumRows(handled[j].blob)
           /\ handled[k].outcome \in AfterDecode
    /\ statistics.rows_read < statistics.rows_seen

\* C12: when every read completed and the scan is done, every listed blob was
\* dequeued exactly once and led either to one emitted morsel or to one
\* counted failure, never both, so blobs_read + failed_reads is the number of
\* listed blobs.
C12_EveryBlobHandledOnce ==
    (op_pc = "done" /\ \A b \in Blobs : task_pc[b] = "done") =>
        /\ \A b \in Blobs :
               /\ Cardinality({i \in 1 .. Len(handled) : handled[i].blob = b}) = 1
               /\ Cardinality({i \in BlobMorselsEmitted : emitted[i].blob = b})
                    + Cardinality({i \in 1 .. Len(statistics.messages) :
                                      statistics.messages[i] = b}) = 1
        /\ statistics.blobs_read = Cardinality(BlobMorselsEmitted)
        /\ statistics.failed_reads = Len(statistics.messages)
        /\ statistics.blobs_read + statistics.failed_reads = num_blobs

\* C12 witness: a finished scan of the longest listing with a failed blob
\* between two emitted ones.
C12_Witness ==
    /\ op_pc = "done"
    /\ num_blobs = MaxBlobs
    /\ \A b \in Blobs : task_pc[b] = "done"
    /\ statistics.failed_reads = 1
    /\ statistics.blobs_read = 2

(***************************************************************************)
(* Binder: properties.                                                     *)
(***************************************************************************)
\* The columns of `$derived` in the dict the context points at.
Derived(ctx) ==
    LET dict == ctx.dicts[ctx.schemas]
    IN  dict[KeyAt(dict, "$derived")].columns

\* C13: inner_binder on a node whose schema_column is set returns the same
\* node and the same context: no schema changes, no column is appended to
\* $derived, and the node's children are as they were.
C13_BoundNodeIsReturnedUnchanged ==
    (bound.op # "none" /\ bound.node.schema_column # NoColumn) =>
        /\ bound.error = "none"
        /\ bound.result = bound.node
        /\ context = bound.before

\* C13 witness: a bound operator node with children was bound again, with
\* columns in $derived.
C13_Witness ==
    /\ bound.op = "rebind"
    /\ bound.node.schema_column # NoColumn
    /\ bound.node.left # NoNode
    /\ Len(Derived(context)) >= 2

\* The last call bound an unbound expression and returned.
BoundUnboundTree == bound.op = "bind" /\ bound.error = "none"

IsProperPrefix(p, q) == Len(p) < Len(q) /\ SubSeq(q, 1, Len(p)) = p

\* The node lies below a node that the lookup by column name bound without
\* visiting its children.
BelowSkipped(path) == \E p \in bound.skipped : IsProperPrefix(p, path)

\* Every node of the returned tree (through left, centre, right and
\* parameters) has schema_column set.
C14_EveryNodeIsBound ==
    BoundUnboundTree =>
        \A t \in Subtrees(bound.result, FALSE) : t.node.schema_column # NoColumn

\* C14: after inner_binder returns for an unbound tree, every node of the
\* returned tree (the root and the nodes reached through left, centre, right
\* and parameters) has schema_column set, except SUBQUERY nodes, nodes other
\* than literals whose do_not_create_column is set, and the nodes below a
\* node that was bound by name to a column the schemas already had.
C14_EveryVisitedNodeIsBound ==
    BoundUnboundTree =>
        \A t \in Subtrees(bound.result, FALSE) :
            \/ t.node.schema_column # NoColumn
            \/ t.node.node_type = "SUBQUERY"
            \/ t.node.do_not_create_column /\ t.node.node_type # "LITERAL"
            \/ BelowSkipped(t.path)

\* C14 witness: a function of two parameters was bound; the first parameter
\* and its operands are bound, the second was bound by name and its operands
\* are not.
C14_Witness ==
    /\ BoundUnboundTree
    /\ bound.result.value = "COALESCE"
    /\ Len(bound.result.parameters) = 2
    /\ bound.result.schema_column # NoColumn
    /\ bound.result.parameters[1].left.schema_column # NoColumn
    /\ bound.result.parameters[2].schema_column # NoColumn
    /\ bound.result.parameters[2].left.schema_column = NoColumn
    /\ <<"parameters2">> \in bound.skipped

\* C15: a sub-expression bound twice on one context is bound to one column:
\* the derived columns the returned nodes are bound to have one identity per
\* name, also for two parameters of one function, and $derived holds one
\* column per name after any sequence of binds.
C15_DerivedColumnIsReused ==
    /\ \A c1, c2 \in bound.columns : c1.name = c2.name => c1.identity = c2.identity
    /\ \A i, j \in 1 .. Len(Derived(context)) :
           Derived(context)[i].name = Derived(context)[j].name => i = j

\* The schemas dict the last call was given.
DictBefore == bound.before.dicts[bound.before.schemas]

\* The candidate schemas of an identifier: every schema when the node has no
\* source, else the schema of that name and the shared ones.
CandidatesOf(node) ==
    {i \in 1 .. Len(DictBefore) :
        \/ node.source = ""
        \/ DictBefore[i].name = node.source
        \/ StartsWithShared(DictBefore[i].name)}

\* The columns of a schema that have the name as their name or as an alias.
ColumnsNamed(schema, name) ==
    {c \in SeqRange(schema.columns) : name = c.name \/ name \in SeqRange(c.aliases)}

\* The candidate schemas in which the identifier's source_column is found.
MatchingSchemas(node) ==
    {i \in CandidatesOf(node) : ColumnsNamed(DictBefore[i], node.source_column) # {}}

\* C16: binding an identifier raises AmbiguousIdentifierError exactly when
\* its source_column matches, by name or alias, a column in more than one
\* candidate schema; with exactly one matching schema the node returned is
\* bound to a column of that schema with that name.
C16_AmbiguousExactlyWhenTwoSchemasMatch ==
    (bound.op = "bind" /\ bound.node.node_type = "IDENTIFIER") =>
        /\ bound.error = "AmbiguousIdentifierError"
              <=> Cardinality(MatchingSchemas(bound.node)) > 1
        /\ Cardinality(MatchingSchemas(bound.node)) = 1 =>
              /\ bound.error = "none"
              /\ \E i \in MatchingSchemas(bound.node) :
                     \E c \in ColumnsNamed(DictBefore[i], bound.node.source_column) :
                         bound.result.schema_column.identity = c.identity

\* C16 witness: an identifier qualified by a relation was ambiguous because
\* a shared schema has the column too.
C16_Witness ==
    /\ bound.op = "bind"
    /\ bound.node.node_type = "IDENTIFIER"
    /\ bound.node.source = "t1"
    /\ bound.error = "AmbiguousIdentifierError"
    /\ \E i \in MatchingSchemas(bound.node) : StartsWithShared(DictBefore[i].name)

\* C17: binding a node whose do_not_create_column is set appends no column to
\* $derived for that node, a literal included: every column $derived gained
\* is the column of a node below it.
C17_FlaggedNodeAddsNoColumn ==
    (bound.op = "bind" /\ bound.error = "none" /\ bound.node.do_not_create_column) =>
        \A c \in SeqRange(Derived(context)) :
            \/ \E b \in SeqRange(Derived(bound.before)) : b.identity = c.identity
            \/ \E t \in Subtrees(bound.result, TRUE) :
                   /\ t.path # <<>>
                   /\ t.node.schema_column # NoColumn
                   /\ t.node.schema_column.identity = c.identity

(***************************************************************************)
(* hash_tree: properties.                                                  *)
(***************************************************************************)
\* The nodes without children, from left to right, with what names each:
\* its identity, the identity of its column, its value.
RECURSIVE LeavesOf(_)
LeavesOfList(nodes) ==
    LET RECURSIVE From(_)
        From(i) == IF i > Len(nodes) THEN <<>> ELSE LeavesOf(nodes[i]) \o From(i + 1)
    IN  From(1)

LeavesOf(node) ==
    IF node = NoNode THEN <<>>
    ELSE IF node.left = NoNode /\ node.right = NoNode /\ node.centre = NoNode
            /\ node.parameters = <<>>
    THEN <<[identity |-> node.identity,
            column |-> IF node.schema_column = NoColumn THEN NoIdentity
                       ELSE node.schema_column.identity,
            value |-> node.value]>>
    ELSE LeavesOf(node.left) \o LeavesOf(node.right) \o LeavesOf(node.centre)
           \o LeavesOfList(node.parameters)

\* C18: two trees with the same formatted expression and the same leaf
\* identities and values get the same identity, whatever their aliases; the
\* fold of the children does not depend on their order; and two operator
\* nodes with the same operands and different operators get different
\* identities.
C18_IdentityFollowsShape ==
    hashed.called =>
        /\ (/\ format_expression(hashed.one) = format_expression(hashed.other)
            /\ LeavesOf(hashed.one) = LeavesOf(hashed.other))
              => hashed.identity_one = hashed.identity_other
        /\ hashed.inner_one = hashed.inner_mirrored
        /\ (/\ hashed.one.value # hashed.other.value
            /\ hashed.one.left = hashed.other.left
            /\ hashed.one.right = hashed.other.right
            /\ hashed.one.parameters = hashed.other.parameters)
              => hashed.identity_one # hashed.identity_other

\* C18 witness: the sum and the difference of the same two operands were
\* hashed; the operands differ, so the mirror image folds them the other way
\* round.
C18_Witness ==
    /\ hashed.called
    /\ hashed.one.value = "Plus"
    /\ hashed.other.value = "Minus"
    /\ hashed.one.left = hashed.other.left
    /\ hashed.one.right = hashed.other.right
    /\ hashed.one.left.node_type # hashed.one.right.node_type

(***************************************************************************)
(* Predicate rewriter: properties.                                         *)
(***************************************************************************)
\* C19: after a visit to a Filter whose condition is an AND, OR or XOR node,
\* each of the two sub-predicates is what _rewrite_predicate makes of it at the
\* top level.
C19_NestedComparisonIsRewritten ==
    (/\ visits.count >= 1
     /\ visits.error = ""
     /\ visits.before.node_type = "Filter"
     /\ visits.before.condition.node_type \in {"AND", "OR", "XOR"})
      => /\ plan_node.condition.left =
              _rewrite_predicate(visits.before.condition.left).node
         /\ plan_node.condition.right =
              _rewrite_predicate(visits.before.condition.right).node

\* C20: the second visit to a node returns, and leaves the node as the first
\* visit left it.
C20_SecondRewriteChangesNothing ==
    visits.count >= 2 => /\ visits.error = ""
                         /\ plan_node = visits.before

\* The last visit was to a Filter whose condition is a comparison, and returned.
ComparisonVisited ==
    /\ visits.count >= 1
    /\ visits.error = ""
    /\ visits.before.node_type = "Filter"
    /\ visits.before.condition.node_type = "COMPARISON_OPERATOR"

HasWildcard(pattern) == Contains(pattern, "%") \/ Contains(pattern, "_")

\* C22: Like (NotLike) with a pattern that has neither % nor _ becomes Eq
\* (NotEq) with the same operands; with a % or a _ in the pattern, and for
\* ILike and NotILike with any pattern, the result is not Eq or NotEq.
C22_LikeWithoutWildcardBecomesEq ==
    (/\ ComparisonVisited
     /\ visits.before.condition.value \in {"Like", "NotLike", "ILike", "NotILike"})
      => LET before == visits.before.condition
             after == plan_node.condition
         IN  IF before.value \in {"Like", "NotLike"} /\ ~HasWildcard(before.right.value)
             THEN after = [before EXCEPT !.value = IF @ = "Like" THEN "Eq" ELSE "NotEq"]
             ELSE after.value \notin {"Eq", "NotEq"}

\* C22 witness: `x LIKE 'a...'` without a wildcard was visited and is now Eq.
C22_Witness ==
    /\ ComparisonVisited
    /\ visits.before.condition.value = "Like"
    /\ Len(visits.before.condition.right.value) > 0
    /\ ~HasWildcard(visits.before.condition.right.value)
    /\ plan_node.condition.value = "Eq"

\* The last visit was to `x LIKE pattern` or `x ILIKE pattern` with a literal
\* pattern that is not empty and a left operand read through a connector that
\* is neither Sql nor Cql.
EligibleLikeVisited ==
    /\ ComparisonVisited
    /\ visits.before.condition.value \in {"Like", "ILike"}
    /\ visits.before.condition.right.node_type = "LITERAL"
    /\ Len(visits.before.condition.right.value) > 0
    /\ visits.before.condition.left.source_connector # {}
    /\ visits.before.condition.left.source_connector \cap {"Sql", "Cql"} = {}

\* `x LIKE pattern` as the function `name` of x, the text and ignore_case.
IsFunctionOf(after, before, name, text) ==
    /\ after.node_type = "FUNCTION"
    /\ after.value = name
    /\ Len(after.parameters) = 3
    /\ after.parameters[1] = before.left
    /\ after.parameters[2] = [before.right EXCEPT !.value = text]
    /\ after.parameters[3].node_type = "LITERAL"
    /\ after.parameters[3].value = (IF before.value = "ILike" THEN "True" ELSE "False")

\* What C23 says of a Like or ILike whose pattern, as the rules see it, is
\* `pattern`.
LikeBecomesFunction(before, after, pattern) ==
    LET n == Len(pattern)
        first == CharAt(pattern, 1) = "%"
        last == CharAt(pattern, n) = "%"
        percents == Count(pattern, "%")
    IN  /\ (percents = 1 /\ last)
              => IsFunctionOf(after, before, "STARTS_WITH", SubSeq(pattern, 1, n - 1))
        /\ (percents = 1 /\ first /\ ~last)
              => IsFunctionOf(after, before, "ENDS_WITH", SubSeq(pattern, 2, n))
        /\ (percents = 2 /\ first /\ last)
              => IsFunctionOf(after, before, "SEARCH", SubSeq(pattern, 2, n - 1))
        /\ (\E i \in 2 .. (n - 1) : CharAt(pattern, i) = "%")
              => after.node_type = "COMPARISON_OPERATOR" /\ after.value = before.value
        /\ after.node_type = "FUNCTION" => ~Contains(after.parameters[2].value, "%")

\* C23 as stated, of the pattern as written in the query: one % at the end
\* gives STARTS_WITH, one at the start ENDS_WITH, two at both ends SEARCH, with
\* the parameters [left, stripped pattern, ignore_case]; the text passed has no
\* %; a pattern with an inner % stays Like or ILike.
C23_WrittenPatternDecidesFunction ==
    EligibleLikeVisited
      => LikeBecomesFunction(visits.before.condition, plan_node.condition,
                             visits.before.condition.right.value)

\* C23 amended: the same of the pattern after every run of % has been
\* collapsed to one %.
C23_CollapsedPatternDecidesFunction ==
    EligibleLikeVisited
      => LikeBecomesFunction(visits.before.condition, plan_node.condition,
                             CollapseWildcards(visits.before.condition.right.value))

\* C23 witness: `x ILIKE '%a%'` became SEARCH(x, 'a', True).
C23_Witness ==
    /\ EligibleLikeVisited
    /\ visits.before.condition.value = "ILike"
    /\ visits.before.condition.right.value = "%a%"
    /\ plan_node.condition.value = "SEARCH"
    /\ plan_node.condition.parameters[2].value = "a"
    /\ plan_node.condition.parameters[3].value = "True"

\* One % at the end, one % at the start, or two % at both ends.
RewritableShape(pattern) ==
    LET n == Len(pattern)
        percents == Count(pattern, "%")
    IN  /\ n > 0
        /\ \/ percents = 1 /\ (CharAt(pattern, 1) = "%" \/ CharAt(pattern, n) = "%")
           \/ percents = 2 /\ CharAt(pattern, 1) = "%" /\ CharAt(pattern, n) = "%"

\* C24: a Like or ILike with a literal pattern of a rewritable shape becomes
\* a function exactly when the connector set of its left operand holds
\* neither Sql nor Cql, the empty set included.
C24_RewrittenExactlyWhenDisjoint ==
    (/\ ComparisonVisited
     /\ visits.before.condition.value \in {"Like", "ILike"}
     /\ visits.before.condition.right.node_type = "LITERAL"
     /\ RewritableShape(CollapseWildcards(visits.before.condition.right.value)))
      => (plan_node.condition.node_type = "FUNCTION"
            <=> visits.before.condition.left.source_connector \cap {"Sql", "Cql"} = {})

\* C25: InList (NotInList) with a literal one-element collection becomes Eq
\* (NotEq) of that element, typed by the former sub_type, or VARCHAR without
\* one, and with sub_type cleared; AnyOpEq with a literal right operand is
\* InList first; a longer collection stays InList (NotInList).
C25_SingletonInBecomesEq ==
    (/\ ComparisonVisited
     /\ visits.before.condition.value \in {"InList", "NotInList", "AnyOpEq"})
      => LET before == visits.before.condition
             after == plan_node.condition
             renamed == IF before.value = "AnyOpEq" THEN "InList" ELSE before.value
         IN  IF before.right.node_type # "LITERAL" THEN after = before
             ELSE IF Len(before.right.members) = 1
             THEN after = [before EXCEPT
                             !.value = IF renamed = "InList" THEN "Eq" ELSE "NotEq",
                             !.right.value = before.right.members[1],
                             !.right.members = <<>>,
                             !.right.type = IF before.right.sub_type = "None"
                                            THEN "VARCHAR" ELSE before.right.sub_type,
                             !.right.sub_type = "None"]
             ELSE after = [before EXCEPT !.value = renamed]

\* C25 witness: `x = ANY(('a'))` with a list of sub_type INTERVAL became
\* `x = 'a'` with the literal typed INTERVAL.
C25_Witness ==
    /\ ComparisonVisited
    /\ visits.before.condition.value = "AnyOpEq"
    /\ visits.before.condition.right.sub_type = "INTERVAL"
    /\ plan_node.condition.value = "Eq"
    /\ plan_node.condition.right.value = "a"
    /\ plan_node.condition.right.type = "INTERVAL"

\* The last visit was to `end - start <cmp> interval` with both sides of type
\* INTERVAL.
IntervalComparisonVisited ==
    /\ ComparisonVisited
    /\ visits.before.condition.value \in {"Gt", "Lt"}
    /\ visits.before.condition.left.node_type = "BINARY_OPERATOR"
    /\ visits.before.condition.left.value = "Minus"
    /\ determine_type(visits.before.condition.left) = "INTERVAL"
    /\ determine_type(visits.before.condition.right) = "INTERVAL"

\* `start + interval`, as a new node
IsSumOf(node, start, interval) ==
    /\ node.node_type = "BINARY_OPERATOR"
    /\ node.value = "Plus"
    /\ node.left = start
    /\ node.right = interval

\* C26 as stated: `end - start <cmp> interval` becomes `start + interval <cmp>
\* end`, the new Plus node on the left and end on the right, the comparison
\* operator unchanged.
C26_SumIsLeftOperand ==
    IntervalComparisonVisited
      => LET before == visits.before.condition
             after == plan_node.condition
         IN  /\ after.value = before.value
             /\ IsSumOf(after.left, before.left.right, before.right)
             /\ after.right = before.left.left

\* C26 amended: `end - start <cmp> interval` becomes `end <cmp> start +
\* interval`, end on the left and the new Plus node on the right, the
\* comparison operator unchanged.
C26_SumIsRightOperand ==
    IntervalComparisonVisited
      => LET before == visits.before.condition
             after == plan_node.condition
         IN  /\ after.node_type = "COMPARISON_OPERATOR"
             /\ after.value = before.value
             /\ after.left = before.left.left
             /\ IsSumOf(after.right, before.left.right, before.right)

\* C26 witness: `end - start < 7 days` was visited and its left operand is
\* now the column `end`.
C26_Witness ==
    /\ IntervalComparisonVisited
    /\ visits.before.condition.value = "Lt"
    /\ plan_node.condition.left.node_type = "IDENTIFIER"
    /\ plan_node.condition.left.value = "end"
    /\ plan_node.condition.right.value = "Plus"

(***************************************************************************)
(* What a predicate evaluates to on a row, by the SQL meaning of the       *)
(* operators and of the three functions.                                   *)
(***************************************************************************)
\* text.lower() for the letters of the rows
Lower(text) ==
    LET RECURSIVE From(_)
        From(i) == IF i > Len(text) THEN ""
                   ELSE (IF CharAt(text, i) = "A" THEN "a" ELSE CharAt(text, i)) \o From(i + 1)
    IN  From(1)

\* LIKE: % stands for any text, _ for any one character.
RECURSIVE LikeMatches(_, _)
LikeMatches(text, pattern) ==
    IF pattern = "" THEN text = ""
    ELSE LET rest == SubSeq(pattern, 2, Len(pattern))
             tail == SubSeq(text, 2, Len(text))
         IN  IF CharAt(pattern, 1) = "%"
             THEN LikeMatches(text, rest) \/ (text # "" /\ LikeMatches(tail, pattern))
             ELSE /\ text # ""
                  /\ CharAt(pattern, 1) \in {"_", CharAt(text, 1)}
                  /\ LikeMatches(tail, rest)

StartsWith(text, prefix) ==
    Len(prefix) <= Len(text) /\ SubSeq(text, 1, Len(prefix)) = prefix

EndsWith(text, suffix) ==
    Len(suffix) <= Len(text)
      /\ SubSeq(text, Len(text) - Len(suffix) + 1, Len(text)) = suffix

\* The days of an interval literal of the model.
IntervalDays(value) ==
    CASE value = "1 day" -> 1
      [] value = "2 days" -> 2
      [] value = "7 days" -> 7

\* A text operand on a row: a column of the row or a literal.
TextOf(node, row) == IF node.node_type = "IDENTIFIER" THEN row[node.value] ELSE node.value

\* A date or interval operand on a row, in days.
RECURSIVE DaysOf(_, _)
DaysOf(node, row) ==
    IF node.node_type = "IDENTIFIER" THEN row[node.value]
    ELSE IF node.node_type = "LITERAL" THEN IntervalDays(node.value)
    ELSE IF node.value = "Plus" THEN DaysOf(node.left, row) + DaysOf(node.right, row)
    ELSE DaysOf(node.left, row) - DaysOf(node.right, row)

\* A comparison or function of texts on a row.
EvaluateText(predicate, row) ==
    LET left == TextOf(predicate.left, row)
        right == TextOf(predicate.right, row)
        Folded(text) == IF predicate.parameters[3].value = "True" THEN Lower(text) ELSE text
    IN  CASE predicate.value = "Like" -> LikeMatches(left, right)
          [] predicate.value = "NotLike" -> ~LikeMatches(left, right)
          [] predicate.value = "ILike" -> LikeMatches(Lower(left), Lower(right))
          [] predicate.value = "NotILike" -> ~LikeMatches(Lower(left), Lower(right))
          [] predicate.value = "Eq" -> left = right
          [] predicate.value = "NotEq" -> left # right
          [] predicate.value \in {"InList", "AnyOpEq"} ->
                \E i \in 1 .. Len(predicate.right.members) : left = predicate.right.members[i]
          [] predicate.value = "NotInList" ->
                \A i \in 1 .. Len(predicate.right.members) : left # predicate.right.members[i]
          [] predicate.value = "STARTS_WITH" ->
                StartsWith(Folded(TextOf(predicate.parameters[1], row)),
                           Folded(TextOf(predicate.parameters[2], row)))
          [] predicate.value = "ENDS_WITH" ->
                EndsWith(Folded(TextOf(predicate.parameters[1], row)),
                         Folded(TextOf(predicate.parameters[2], row)))
          [] predicate.value = "SEARCH" ->
                \E i \in 0 .. Len(TextOf(predicate.parameters[1], row)) :
                    StartsWith(SubSeq(Folded(TextOf(predicate.parameters[1], row)), i + 1,
                                      Len(TextOf(predicate.parameters[1], row))),
                               Folded(TextOf(predicate.parameters[2], row)))

\* A comparison of dates or intervals on a row.
EvaluateDays(predicate, row) ==
    IF predicate.value = "Gt"
    THEN DaysOf(predicate.left, row) > DaysOf(predicate.right, row)
    ELSE DaysOf(predicate.left, row) < DaysOf(predicate.right, row)

RowAlphabet == {"a", "A", "_", "%"}

RECURSIVE Texts(_)
Texts(n) ==
    IF n = 0 THEN {""}
    ELSE {""} \cup {char \o text : char \in RowAlphabet, text \in Texts(n - 1)}

TextRows == {[x |-> x, y |-> y] : x \in Texts(MaxText), y \in {"a", "a%"}}

DayRows == {[end |-> end, start |-> start] : end \in {0, 7, 8}, start \in {0, 1}}

\* The last visit was to a comparison of the text column x.
TextComparisonVisited ==
    /\ ComparisonVisited
    /\ visits.before.condition.left.node_type = "IDENTIFIER"
    /\ visits.before.condition.left.type = "VARCHAR"
    /\ visits.before.condition.right.type \in {"VARCHAR", "ARRAY"}
    /\ visits.before.condition.right.node_type = "LITERAL"
         \/ visits.before.condition.right.value = "y"

\* C21: the rewritten predicate has the truth value of the original on every
\* row, for the comparisons of a text column and for the interval comparison.
C21_RewriteKeepsTruthValue ==
    /\ TextComparisonVisited
         => \A row \in TextRows :
              EvaluateText(plan_node.condition, row)
                = EvaluateText(visits.before.condition, row)
    /\ IntervalComparisonVisited
         => \A row \in DayRows :
              EvaluateDays(plan_node.condition, row)
                = EvaluateDays(visits.before.condition, row)

(***************************************************************************)
(* Join: the two phases.                                                   *)
(***************************************************************************)
\* C28: in every state with stream = right both left_relation and left_hash
\* have been built, and a build that failed at the left EOS has left stream
\* at left.
C28_RightStreamHasBuiltTable ==
    /\ stream = "right" => left_relation.set /\ left_hash.set
    /\ join_error \in {"ArrowInvalid", "TypeError"} => stream = "left"

\* C29: in a joined morsel the right row indices never decrease, and among
\* the pairs of one right row the left row indices ascend, which is the order
\* in which the left rows were inserted.
C29_PairsInProbeOrder ==
    yielded.morsel =>
        \A i \in 1 .. (Len(yielded.right_indexes) - 1) :
            /\ yielded.right_indexes[i] <= yielded.right_indexes[i + 1]
            /\ yielded.right_indexes[i] = yielded.right_indexes[i + 1]
                  => yielded.left_indexes[i] < yielded.left_indexes[i + 1]

\* C29 witness: a morsel in which the first right row is paired with two left
\* rows and a later right row follows.
C29_Witness ==
    /\ yielded.morsel
    /\ Len(yielded.right_indexes) >= 3
    /\ yielded.right_indexes[1] = yielded.right_indexes[2]
    /\ yielded.left_indexes[1] # yielded.left_indexes[2]
    /\ yielded.right_indexes[3] > yielded.right_indexes[1]

\* C30: one type branch at most processes the morsel: the two index lists
\* have the same length, no pair is in them twice, and every pair of rows with
\* equal non-null keys is in them.
C30_EachPairOnce ==
    yielded.morsel =>
        /\ Len(yielded.left_indexes) = Len(yielded.right_indexes)
        /\ Cardinality(YieldedPairs) = Len(yielded.left_indexes)
        /\ key_type \in HashedTypes \cup {"integer"}
              => ReferencePairs(left_relation.rows, right_relation) \subseteq YieldedPairs

\* C30 witness: a join on a fixed-size binary key, and one on a string key,
\* that yields two pairs.
C30_Witness ==
    /\ yielded.morsel
    /\ key_type \in {"fixed_size_binary", "string"}
    /\ Len(yielded.left_indexes) = 2

\* A call made in the left state that leaves the stream left: one morsel is
\* added behind the ones buffered before, nothing is built, nothing is output.
BuffersOneMorsel ==
    /\ Len(left_buffer') = Len(left_buffer) + 1
    /\ SubSeq(left_buffer', 1, Len(left_buffer)) = left_buffer
    /\ left_buffer'[Len(left_buffer')] \in Morsels
    /\ ~yielded'.morsel
    /\ UNCHANGED <<left_relation, left_hash, left_columns, right_columns>>

\* The call that moves the stream to right outputs nothing and, when it
\* returns, has emptied the buffer and built the relation, which is the
\* buffered morsels in arrival order, and the hash table.
BuildsAtEOS ==
    /\ ~yielded'.morsel
    /\ join_error' = "none" =>
           /\ left_buffer' = <<>>
           /\ left_relation' = [set |-> TRUE, rows |-> ConcatTables(left_buffer)]
           /\ ~left_hash.set
           /\ left_hash'.set

\* A call made in the right state, morsel or EOS, leaves the stream right
\* and does not write the hash table, the left relation or the join columns.
ProbeOnlyReads ==
    /\ stream' = "right"
    /\ UNCHANGED <<left_hash, left_relation, left_columns, right_columns>>

\* One call of execute, by the state it is made in and the state it leaves.
TwoPhaseStep ==
    /\ (stream = "left" /\ stream' = "left") => BuffersOneMorsel
    /\ (stream = "left" /\ stream' = "right") => BuildsAtEOS
    /\ stream = "right" => ProbeOnlyReads
    /\ stream' = "left" => (~left_hash'.set /\ ~left_relation'.set)

\* C27: the join starts with stream = left; in that state a morsel is
\* appended to left_buffer in arrival order and nothing is output; the EOS
\* moves stream to right, empties left_buffer and builds left_relation and
\* left_hash (when the build returns; the build that raises is the subject
\* of C28); stream never returns to left, and no call made in the right state
\* writes left_hash, left_relation or the join columns.
C27_TwoPhases ==
    /\ stream = "left"
    /\ [][TwoPhaseStep]_joinVars

\* C27 witness: three left rows, so two morsels at least, were buffered and
\* built into the relation, and a right morsel was joined against them.
C27_Witness ==
    /\ stream = "right"
    /\ left_buffer = <<>>
    /\ left_hash.set
    /\ left_relation.set
    /\ Len(left_relation.rows) = MaxLeftRows
    /\ yielded.morsel

(***************************************************************************)
(* Scan: the reply queue.                                                  *)
(***************************************************************************)
\* The blobs whose results were dequeued, in the order of dequeuing.
DequeuedBlobs == [i \in 1 .. Len(handled) |-> handled[i].blob]

\* The results waiting on the queue, oldest first, without the marker.
QueuedBlobs == SelectSeq(data_queue, LAMBDA item : item # TerminationMarker)

\* The results enqueued so far: the dequeued ones, then the waiting ones.
EnqueuedBlobs == DequeuedBlobs \o QueuedBlobs

MarkersQueued ==
    Cardinality({i \in 1 .. Len(data_queue) : data_queue[i] = TerminationMarker})

\* The executor has put the marker.
MarkerWasPut == ex_pc \in {"marker_put", "finished"}

\* The operator thread has taken the marker off the queue.
MarkerWasTaken == op_pc \in {"joining", "done"}

\* The marker is on the queue or was taken from it, never both, once the
\* executor has put it and not before; it was put behind the result of every
\* blob, and it is taken when every result has been taken.
MarkerComesLast ==
    /\ MarkersQueued + (IF MarkerWasTaken THEN 1 ELSE 0) = (IF MarkerWasPut THEN 1 ELSE 0)
    /\ MarkersQueued = 1 => data_queue[Len(data_queue)] = TerminationMarker
    /\ MarkerWasPut => SeqRange(EnqueuedBlobs) = Blobs
    /\ MarkerWasTaken => SeqRange(DequeuedBlobs) = Blobs /\ data_queue = <<>>

\* The blobs of the morsels emitted, in the order of emission.
EmittedBlobs ==
    LET blob_morsels == SelectSeq(emitted, LAMBDA m : m.kind = "blob")
    IN  [i \in 1 .. Len(blob_morsels) |-> blob_morsels[i].blob]

\* The dequeued blobs that were handled without an error, in that order.
DequeuedOk ==
    LET ok == SelectSeq(handled, LAMBDA h : h.outcome = "ok")
    IN  [i \in 1 .. Len(ok) |-> ok[i].blob]

\* One step: the enqueued results stay as they are, or the result of a read
\* that completes in this step is added behind them all.
EnqueuedInCompletionOrder ==
    \/ EnqueuedBlobs' = EnqueuedBlobs
    \/ \E b \in Blobs :
           /\ task_pc[b] = "reading"
           /\ task_pc'[b] = "done"
           /\ EnqueuedBlobs' = Append(EnqueuedBlobs, b)

\* C31: the termination marker is put once, behind the result of every blob
\* read; the queue is first in first out, so the operator thread takes the
\* marker after every result, and the morsels are emitted in the order in
\* which the reads completed.
C31_MarkerAfterEveryResult ==
    /\ [](MarkerComesLast /\ EmittedBlobs = DequeuedOk)
    /\ [][EnqueuedInCompletionOrder]_scanVars

\* C31 witness: a finished scan that emitted the morsel of the second blob
\* before the morsel of the first, then the morsel of the third.
C31_Witness ==
    /\ op_pc = "done"
    /\ MarkerWasPut
    /\ num_blobs = MaxBlobs
    /\ EmittedBlobs = <<2, 1, 3>>

\* C32: the reply queue is bounded by a capacity that does not grow with the
\* listing: the results waiting on it are fewer than the blobs of the longest
\* listing, the reader that completes next waiting until one is taken.
C32_ReplyQueueIsBounded == Len(QueuedBlobs) < MaxBlobs

(***************************************************************************)
(* Scan: the end of execute.                                               *)
(***************************************************************************)
\* fetch_data is not running: it returned, or it ended with an exception.
ExecutorNotRunning == ex_pc \in {"finished", "crashed"}

\* This step emits an empty morsel after the reader thread was started.
EmitsFinalEmptyMorsel ==
    /\ op_pc # "start"
    /\ Len(emitted') = Len(emitted) + 1
    /\ emitted'[Len(emitted')].kind = "empty"

\* One step of the scan, by where the operator thread is before and after it.
JoinsBeforeTheEnd ==
    /\ (op_pc # "joining" /\ op_pc' = "joining") =>
           (data_queue # <<>> /\ Head(data_queue) = TerminationMarker)
    /\ (op_pc # "done" /\ op_pc' = "done") => (op_pc = "joining" /\ ExecutorNotRunning)
    /\ EmitsFinalEmptyMorsel => (op_pc = "joining" /\ op_pc' = "done" /\ ExecutorNotRunning)
    /\ op_pc = "done" => UNCHANGED <<op_pc, ex_pc, emitted>>

\* C33: the scan never finishes while its executor is running: execute
\* completes only by joining the reader thread, which it does after it took
\* the termination marker and before it emits the final empty morsel, if
\* any; nothing is emitted after that.
C33_ExecutorJoinedBeforeEnd ==
    /\ [](op_pc = "done" => ExecutorNotRunning)
    /\ [][JoinsBeforeTheEnd]_scanVars

\* C33 witness: a finished scan of the longest listing in which every blob
\* failed, ended by the empty morsel.
C33_Witness ==
    /\ op_pc = "done"
    /\ ex_pc = "finished"
    /\ num_blobs = MaxBlobs
    /\ statistics.failed_reads = num_blobs
    /\ emitted = <<EmptyMorsel(ConvertedArrowSchema)>>

(***************************************************************************)
(* Rewriter: every predicate gets a predicate back.                        *)
(***************************************************************************)
\* The last visit was to a Filter whose condition is a binary operator or a
\* comparison.
OperatorVisited ==
    /\ visits.count >= 1
    /\ visits.before.node_type = "Filter"
    /\ visits.before.condition.node_type \in {"BINARY_OPERATOR", "COMPARISON_OPERATOR"}

\* C34: for a predicate that is a binary operator or a comparison,
\* _rewrite_predicate raises no error and returns a predicate, never None.
C34_RewriteReturnsPredicate ==
    OperatorVisited => /\ visits.error = ""
                       /\ plan_node.condition # NoNode

(***************************************************************************)
(* merge_schemas: properties.                                              *)
(***************************************************************************)
\* An argument of the call is not a dict.
SomeArgumentIsNotADict ==
    \E i \in 1 .. Len(merging.schemas) : ~IsDict(merging.schemas[i])

\* A dict among the arguments keeps under some key a value that is not a
\* schema.
SomeValueIsNotASchema ==
    \E i \in 1 .. Len(merging.schemas) :
        \E k \in 1 .. Len(merging.schemas[i].entries) :
            "columns" \notin DOMAIN merging.schemas[i].entries[k]

\* C35: merge_schemas raises InvalidInternalStateError when an argument is
\* not a dict and when a value under a key, in one argument or in several, is
\* not a relation schema; the dict it returns holds schemas only.
C35_NonSchemaIsRejected ==
    merging.result.called =>
        /\ (SomeArgumentIsNotADict \/ SomeValueIsNotASchema)
              => merging.result.error = "InvalidInternalStateError"
        /\ merging.result.error = "none"
              => \A k \in 1 .. Len(merging.result.dict) :
                     "columns" \in DOMAIN merging.result.dict[k]

(***************************************************************************)
(* Binder: session variables.                                              *)
(***************************************************************************)
\* The last call was made with an identifier that was not bound yet.
IdentifierLocated ==
    /\ bound.op # "none"
    /\ bound.node.node_type = "IDENTIFIER"
    /\ bound.node.schema_column = NoColumn

\* The dict context.schemas pointed at when the call was made.
SchemasBefore == bound.before.dicts[bound.before.schemas]

\* The schemas of that dict the identifier is looked up in.
CandidatesBefore ==
    {i \in 1 .. Len(SchemasBefore) :
        \/ bound.node.source = ""
        \/ bound.node.source = SchemasBefore[i].name
        \/ (Len(SchemasBefore[i].name) >= 7 /\ SubSeq(SchemasBefore[i].name, 1, 7) = "$shared")}

\* The candidates that have a column of the identifier's name.
MatchesBefore ==
    {i \in CandidatesBefore : find_column(SchemasBefore[i], bound.node.source_column) # 0}

NamesVariable == SubSeq(bound.node.current_name, 1, 1) = "@"

\* The context after the call differs from the one before in one thing: the
\* column was appended to $derived.
OnlyDerivedGrewBy(column) ==
    /\ Len(context.dicts) = Len(bound.before.dicts)
    /\ context.schemas = bound.before.schemas
    /\ \A d \in 1 .. Len(context.dicts) :
           /\ Len(context.dicts[d]) = Len(bound.before.dicts[d])
           /\ \A i \in 1 .. Len(context.dicts[d]) :
                  context.dicts[d][i] =
                      IF d = bound.before.schemas /\ context.dicts[d][i].name = "$derived"
                      THEN [bound.before.dicts[d][i] EXCEPT !.columns = Append(@, column)]
                      ELSE bound.before.dicts[d][i]

\* C36: an identifier named '@...' that no candidate schema has a column for
\* comes back as a new LITERAL node bound to the constant column of the
\* variable, and that column alone is appended to $derived; when one schema
\* has the column, a new LITERAL node bound to that column and holding its
\* value comes back and no schema changes; an identifier without '@' that
\* matches no column raises ColumnNotFoundError and no schema changes.
C36_SessionVariableResolution ==
    (IdentifierLocated /\ CandidatesBefore # {}) =>
        /\ (MatchesBefore = {} /\ NamesVariable) =>
               /\ bound.error = "none"
               /\ bound.result.node_type = "LITERAL"
               /\ bound.result.schema_column.kind = "constant"
               /\ bound.result.schema_column.name = bound.node.value
               /\ bound.result.value = bound.result.schema_column.value
               /\ OnlyDerivedGrewBy(bound.result.schema_column)
        /\ (Cardinality(MatchesBefore) = 1 /\ NamesVariable) =>
               /\ bound.error = "none"
               /\ bound.result.node_type = "LITERAL"
               /\ \E i \in MatchesBefore :
                      LET found == SchemasBefore[i].columns[
                                       find_column(SchemasBefore[i], bound.node.source_column)]
                      IN  /\ bound.result.schema_column = found
                          /\ bound.result.value = found.value
               /\ bound.result.alias = ""
               /\ context = bound.before
        /\ (MatchesBefore = {} /\ ~NamesVariable) =>
               /\ bound.error = "ColumnNotFoundError"
               /\ context = bound.before

\* C36 witness: @v was bound and put into $derived by a first call, and
\* the second call found it there.
C36_Witness ==
    /\ IdentifierLocated
    /\ binds = 2
    /\ NamesVariable
    /\ Cardinality(MatchesBefore) = 1
    /\ bound.error = "none"
    /\ bound.result.node_type = "LITERAL"

====
